---- MODULE Spec2Model ----
(***************************************************************************)
(* A TLA+ model of the cryptographic core of the ICAO 9303 eMRTD reader:   *)
(* Montgomery modular rings, elliptic curves and Mod-P groups, ECDSA and   *)
(* RSASSA-PSS verification.                                                *)
(*                                                                         *)
(* The library is pure; its state is the descriptor a caller constructed   *)
(* (`ctx`: a ring, a curve, a group or a key), the value the caller holds  *)
(* (`acc`), and the last call with its inputs and result (`call`).  A call *)
(* ends in one of three ways: an Ok value, an error result (Err), or an    *)
(* abort (Panic: a failed assert!/unwrap()/expect()/unimplemented!()).     *)
(* `build` is the cargo profile: debug_assert! and overflow checks exist   *)
(* only in the debug profile.                                              *)
(*                                                                         *)
(* Unsigned integers are ruint `Uint<BITS, LIMBS>` values.  The model      *)
(* instantiates the type at a small width so that every value can be       *)
(* enumerated; the Montgomery radix stays 2^(64*LIMBS) as in ruint, LIMBS  *)
(* following from the width.                                               *)
(***************************************************************************)
EXTENDS Integers, Naturals, Sequences, FiniteSets, TLC

VARIABLES build, ctx, acc, call

vars == <<build, ctx, acc, call>>

\* ------------------------------------------------------------------------
\* Results
\* ------------------------------------------------------------------------

Ok(v) == [kind |-> "Ok", val |-> v]

Err == [kind |-> "Err"]

Panic == [kind |-> "Panic"]

Some(v) == [kind |-> "Some", val |-> v]

None == [kind |-> "None"]

\* Option::ok_or_else / the `?` operator on an Option inside a Result fn.
ok_or_else(opt) == IF opt.kind = "Some" THEN Ok(opt.val) ELSE Err

\* Option::unwrap / Option::expect.
unwrap(opt) == IF opt.kind = "Some" THEN Ok(opt.val) ELSE Panic

Builds == {"debug", "release"}

\* The call record before the first call.
NoCall == [op |-> "none", result |-> None]

\* ------------------------------------------------------------------------
\* Uint<BITS, LIMBS>
\* ------------------------------------------------------------------------

\* Width of the Uint type the rings and curves are instantiated with.
BITS == 5

\* Bits of one limb.
LimbBits == 64

\* ruint: LIMBS = ceil(BITS / 64), the limbs of a Uint of width `bits`.
LIMBS(bits) == (bits + LimbBits - 1) \div LimbBits

Pow2(k) == 2 ^ k

\* All values of a Uint of width `bits`.
UintValues(bits) == 0 .. (Pow2(bits) - 1)

Uints == UintValues(BITS)

\* Uint::bit (inherent): the index-th bit of the value.
bit(x, index) == (x \div Pow2(index)) % 2

\* Uint::bit_len (inherent): number of significant bits of the value.
RECURSIVE uint_bit_len(_)
uint_bit_len(x) == IF x = 0 THEN 0 ELSE 1 + uint_bit_len(x \div 2)

\* Uint::leading_zeros for a Uint of width `bits`.
leading_zeros(bits, x) == bits - uint_bit_len(x)

\* Uint::byte_len: bytes needed for the value.
byte_len(x) == (uint_bit_len(x) + 7) \div 8

\* a * b mod m without leaving the 32-bit integers.
RECURSIVE MulMod(_, _, _)
MulMod(a, b, m) ==
    IF a < 32768 /\ b < 32768 THEN (a * b) % m
    ELSE IF b = 0 THEN 0
    ELSE IF m <= 67108864
    THEN LET h == MulMod(a, b \div 32, m)
         IN  (((32 * h) % m) + (((a % m) * (b % 32)) % m)) % m
    ELSE LET h == MulMod(a, b \div 2, m)
         IN  (((2 * h) % m) + (IF b % 2 = 1 THEN a % m ELSE 0)) % m

\* Uint::mul_mod.
mul_mod(a, b, m) == MulMod(a, b, m)

\* x.mul_mod(x, m).
square_mod(x, m) == mul_mod(x, x, m)

RECURSIVE PowMod(_, _, _)
PowMod(b, e, m) ==
    IF e = 0 THEN 1 % m
    ELSE LET h == PowMod(b, e \div 2, m)
             s == MulMod(h, h, m)
         IN  IF e % 2 = 1 THEN MulMod(s, b % m, m) ELSE s

\* Extended Euclid: the x with a * x = gcd(a, m) (mod m), and the gcd.
RECURSIVE Egcd(_, _)
Egcd(a, b) ==
    IF b = 0 THEN [g |-> a, x |-> 1, y |-> 0]
    ELSE LET r == Egcd(b, a % b)
         IN  [g |-> r.g, x |-> r.y, y |-> r.x - (a \div b) * r.y]

\* Uint::inv_mod (ruint): the inverse of self modulo modulus, None when
\* self and modulus are not coprime.
inv_mod(a, modulus) ==
    LET r == Egcd(a % modulus, modulus)
    IN  IF modulus = 1 THEN Some(0)
        ELSE IF r.g # 1 THEN None
        ELSE Some(((r.x % modulus) + modulus) % modulus)

\* 2^(64 * LIMBS) mod modulus: the Montgomery radix R of the width reduced.
MontR(bits, modulus) == PowMod(2, LimbBits * LIMBS(bits), modulus)

\* R^-1 mod modulus (modulus odd).
MontRInv(bits, modulus) == inv_mod(MontR(bits, modulus), modulus).val

\* Uint::mul_redc (ruint): Montgomery multiplication a * b / R mod modulus,
\* fully reduced; `rinv` is R^-1 mod modulus, the effect of the REDC steps
\* driven by mod_inv.
mul_redc(a, b, modulus, rinv) == MulMod(MulMod(a, b, modulus), rinv, modulus)

\* Uint::square_redc (ruint).
square_redc(a, modulus, rinv) == mul_redc(a, a, modulus, rinv)

\* add_mod without the carry of the overflowing add.
add_mod_without_carry(bits, a, b, modulus) ==
    LET sum == (a + b) % Pow2(bits)
    IN  IF ~(sum < modulus) THEN (sum - modulus + Pow2(bits)) % Pow2(bits) ELSE sum

\* UintMont::add_mod: overflowing add, then conditional subtract.
add_mod(bits, a, b, modulus) ==
    LET full     == a + b
        carry    == full >= Pow2(bits)
        sum      == full % Pow2(bits)
        borrow   == sum < modulus
        reduced  == (sum - modulus + Pow2(bits)) % Pow2(bits)
    IN  IF carry \/ ~borrow THEN reduced ELSE sum

\* UintMont::sub_mod: overflowing sub, then conditional wrapping add.
sub_mod(bits, a, b, modulus) ==
    LET borrow == a < b
        result == (a - b + Pow2(bits)) % Pow2(bits)
    IN  IF borrow THEN (result + modulus) % Pow2(bits) ELSE result

\* UintMont::random: rejection sampling; `raw` is the rng.gen() draw of the
\* accepted iteration.  The value returned, or None while the draw is
\* rejected and the loop goes on.
random_accept(bits, raw, max) ==
    LET value == raw \div Pow2(leading_zeros(bits, max))
    IN  IF value <= max THEN Some(value) ELSE None

\* ------------------------------------------------------------------------
\* ModRing
\* ------------------------------------------------------------------------

\* ModRing::from_parameters (with mod_inv's effect kept as rinv).
ModRing_from_parameters(bits, modulus, montgomery_r2, rinv) ==
    [bits          |-> bits,
     modulus       |-> modulus,
     montgomery_r  |-> mul_redc(montgomery_r2, 1, modulus, rinv),
     montgomery_r2 |-> montgomery_r2,
     montgomery_r3 |-> square_redc(montgomery_r2, modulus, rinv),
     rinv          |-> rinv]

\* The first montgomery_r2.mul_mod(montgomery_r2, modulus) on the Uint whose
\* only set bit is `index`: 2^index * 2^index mod modulus.
set_bit_square_mod(index, modulus) == PowMod(2, 2 * index, modulus)

\* parameters_from_modulus, montgomery_r2 after the first mul_mod: the seed
\* is the bit 32 * LIMBS alone when BITS > 32, (1 << 32) % modulus
\* otherwise.
seed_square_mod(bits, modulus) ==
    IF bits > 32 THEN set_bit_square_mod(32 * LIMBS(bits), modulus)
    ELSE square_mod(PowMod(2, 32, modulus), modulus)

\* parameters_from_modulus with bit 32 set for every number of limbs.
parameters_from_bit_32(bits, modulus) ==
    IF modulus % 2 = 0 THEN Panic
    ELSE Ok(ModRing_from_parameters(
                bits, modulus,
                square_mod((IF bits > 32 THEN set_bit_square_mod(32, modulus)
                            ELSE square_mod(PowMod(2, 32, modulus), modulus)),
                           modulus),
                MontRInv(bits, modulus)))

\* UintMont::parameters_from_modulus: the seed squared twice.  Aborts on an
\* even modulus (inv_ring().expect).
parameters_from_modulus(bits, modulus) ==
    IF modulus % 2 = 0 THEN Panic
    ELSE Ok(ModRing_from_parameters(
                bits, modulus,
                square_mod(seed_square_mod(bits, modulus), modulus),
                MontRInv(bits, modulus)))

\* ModRing::from_modulus.
ModRing_from_modulus(bits, modulus) == parameters_from_modulus(bits, modulus)

\* ModRing::mont_mul.
mont_mul(ring, a, b) == mul_redc(a, b, ring.modulus, ring.rinv)

\* ModRing::mont_square.
mont_square(ring, a) == square_redc(a, ring.modulus, ring.rinv)

\* ------------------------------------------------------------------------
\* ModRingElement: an element is its Montgomery value; the ring is passed
\* along (the code's ring-equality asserts hold on every path modelled).
\* ------------------------------------------------------------------------

\* RingRefExt::from_montgomery: debug_assert!(value < modulus).
RingRefExt_from_montgomery(ring, value, bld) ==
    IF bld = "debug" /\ ~(value < ring.modulus) THEN Panic ELSE Ok(value)

\* RingRefExt::from: assert!(value < modulus), then into Montgomery form.
RingRefExt_from(ring, value) ==
    IF ~(value < ring.modulus) THEN Panic
    ELSE Ok(mont_mul(ring, value, ring.montgomery_r2))

\* RingRefExt::from on a value the caller has shown to be below the modulus.
from(ring, value) == mont_mul(ring, value, ring.montgomery_r2)

\* RingRefExt::from_u64: Uint::from(u64) aborts when the value does not fit.
RingRefExt_from_u64(ring, value) ==
    IF value >= Pow2(ring.bits) THEN Panic ELSE RingRefExt_from(ring, value)

\* RingRefExt::zero.
zero(ring) == 0

\* RingRefExt::one.
one(ring) == ring.montgomery_r

\* RingRefExt::random.
RingRefExt_random(ring, raw, bld) ==
    LET drawn == random_accept(ring.bits, raw, ring.modulus)
    IN  IF drawn.kind = "None" THEN None
        ELSE Some(RingRefExt_from_montgomery(ring, drawn.val, bld))

\* ModRingElement::to_uint.
to_uint(ring, a) == mont_mul(ring, a, 1)

\* AddAssign / Add for ModRingElement.
elem_add(ring, a, b) == add_mod(ring.bits, a, b, ring.modulus)

\* SubAssign / Sub for ModRingElement.
elem_sub(ring, a, b) == sub_mod(ring.bits, a, b, ring.modulus)

\* MulAssign / Mul for ModRingElement.
elem_mul(ring, a, b) == mont_mul(ring, a, b)

\* Neg for ModRingElement.
elem_neg(ring, a) == elem_sub(ring, zero(ring), a)

\* Inv for ModRingElement, once inv_mod has answered: the inverse taken
\* into Montgomery form.
inv_to_montgomery(ring, value) ==
    IF value.kind = "None" THEN None
    ELSE Some(mont_mul(ring, value.val, ring.montgomery_r3))

\* Inv for ModRingElement.
elem_inv(ring, a) == inv_to_montgomery(ring, inv_mod(a, ring.modulus))

\* Div for ModRingElement, once the inverse is known: self * inverse.
mul_by_inverse(ring, a, inv) ==
    IF inv.kind = "None" THEN None ELSE Some(elem_mul(ring, a, inv.val))

\* Div for ModRingElement.
elem_div(ring, a, b) == mul_by_inverse(ring, a, elem_inv(ring, b))

\* ModRingElement::square.
elem_square(ring, a) == mont_square(ring, a)

\* ModRingElement::pow (small exponent, recursive).
RECURSIVE elem_pow(_, _, _)
elem_pow(ring, a, exponent) ==
    IF exponent = 0 THEN one(ring)
    ELSE IF exponent = 1 THEN a
    ELSE IF exponent % 2 = 0
         THEN elem_square(ring, elem_pow(ring, a, exponent \div 2))
    ELSE elem_mul(ring, a, elem_square(ring, elem_pow(ring, a, exponent \div 2)))

\* UintExp::bit_len (blanket impl): the width of the type, not of the value.
bit_len(bits) == bits

\* UintExp::bit_ct.
bit_ct(x, index) == bit(x, index) = 1

\* ConditionallySelectable for Uint: b when choice, else a.
uint_conditional_select(a, b, choice) == IF choice THEN b ELSE a

\* The loop of ModRingElement::pow_ct from iteration i on.
RECURSIVE pow_ct_loop(_, _, _, _, _, _)
pow_ct_loop(ring, result, power, exponent, i, len) ==
    IF i >= len THEN result
    ELSE LET product == elem_mul(ring, result, power)
             next    == uint_conditional_select(result, product, bit_ct(exponent, i))
         IN  pow_ct_loop(ring, next, elem_mul(ring, power, power), exponent, i + 1, len)

\* ModRingElement::pow_ct; `ebits` is the width of the exponent's type.
elem_pow_ct(ring, a, exponent, ebits) ==
    pow_ct_loop(ring, one(ring), a, exponent, 0, bit_len(ebits))

\* ConditionallySelectable for ModRingElement.
elem_conditional_select(ring, a, b, choice) == uint_conditional_select(a, b, choice)

\* UintMont pow (uint_mont.rs): variable-time Montgomery exponentiation
\* over the significant bits of the exponent, from iteration i on.
RECURSIVE uint_pow_loop(_, _, _, _, _, _)
uint_pow_loop(ring, result, power, exponent, i, len) ==
    IF i >= len THEN result
    ELSE uint_pow_loop(
             ring,
             IF bit(exponent, i) = 1
             THEN mul_redc(result, power, ring.modulus, ring.rinv) ELSE result,
             square_redc(power, ring.modulus, ring.rinv),
             exponent, i + 1, len)

uint_pow(ring, base, exponent) ==
    uint_pow_loop(ring, ring.montgomery_r, base, exponent, 0, uint_bit_len(exponent))

\* UintMont::sqrt_mont.  The match is on `modulus & 3`, so only the arms 3
\* and `_` can be taken.
sqrt_mont(ring, a) ==
    LET sel == ring.modulus % 4
    IN  IF sel = 3
        THEN LET exponent  == (ring.modulus \div 4) + 1
                 candidate == uint_pow(ring, a, exponent)
             IN  IF square_redc(candidate, ring.modulus, ring.rinv) = a
                 THEN Ok(Some(candidate)) ELSE Ok(None)
        ELSE Panic

\* ModRingElement::sqrt: delegates to sqrt_mont.
elem_sqrt(ring, a) == sqrt_mont(ring, a)

\* ------------------------------------------------------------------------
\* EllipticCurve and EllipticCurvePoint
\* ------------------------------------------------------------------------

\* Coordinates::Infinity.
Infinity == [kind |-> "Infinity"]

\* Coordinates::Affine(x, y), coordinates in Montgomery form.
Affine(x, y) == [kind |-> "Affine", x |-> x, y |-> y]

\* EllipticCurve::a.
curve_a(curve) == curve.a_monty

\* EllipticCurve::b.
curve_b(curve) == curve.b_monty

\* EllipticCurve::generator.
generator(curve) == Affine(curve.generator_monty[1], curve.generator_monty[2])

\* EllipticCurve::infinity.
infinity(curve) == Infinity

\* The right-hand side x^3 + a x + b of the curve equation, as the code
\* computes it.
curve_rhs(curve, x) ==
    LET F == curve.base_field
    IN  elem_add(F, elem_add(F, elem_pow(F, x, 3), elem_mul(F, curve_a(curve), x)),
                 curve_b(curve))

\* ConditionallySelectable for EllipticCurvePoint.
point_conditional_select(curve, a, b, choice) ==
    IF a.kind = "Infinity" /\ b.kind = "Infinity" THEN Infinity
    ELSE IF a.kind = "Affine" /\ b.kind = "Affine"
    THEN Affine(elem_conditional_select(curve.base_field, a.x, b.x, choice),
                elem_conditional_select(curve.base_field, a.y, b.y, choice))
    ELSE IF choice THEN b ELSE a

\* Add, from_affine, ensure_valid and mul_uint call one another: the chord
\* branch of Add validates its result with from_affine, which on a curve
\* with cofactor # 1 multiplies the point by the group order, which adds.
\* `stack` is the set of points whose subgroup check is in progress.  The
\* functions are pure, so re-entering the check of a point already on the
\* stack recurses without end and the process aborts on stack overflow.
RECURSIVE EllipticCurvePoint_add(_, _, _, _)
RECURSIVE mul_uint_loop(_, _, _, _, _, _, _)
RECURSIVE mul_uint_step(_, _, _, _, _, _, _, _, _)
RECURSIVE ensure_valid(_, _, _, _)

\* The tail of EllipticCurve::from_affine: the point once ensure_valid has
\* answered.
from_affine_checked(valid, x, y) ==
    IF valid.kind = "Ok" THEN Ok(Affine(x, y)) ELSE valid

\* EllipticCurve::from_affine.
from_affine(curve, x, y, stack) ==
    from_affine_checked(ensure_valid(curve, x, y, stack), x, y)

\* Add: y3 = lambda * (x1 - x3) - y1, paired with x3.
add_coordinates(F, x1, y1, l, x3) ==
    <<x3, elem_sub(F, elem_mul(F, l, elem_sub(F, x1, x3)), y1)>>

\* Add, point doubling: the point at the coordinates, built unchecked.
add_unchecked(c) == Affine(c[1], c[2])

\* Add, point doubling: the point from the slope (lambda.unwrap()).
add_doubling(F, x1, y1, lambda) ==
    IF lambda.kind = "None" THEN Panic
    ELSE add_unchecked(add_coordinates(
                           F, x1, y1, lambda.val,
                           elem_sub(F, elem_pow(F, lambda.val, 2),
                                    elem_mul(F, from(F, 2), x1))))

\* Add, chord: the from_affine(x3, y3).unwrap() on the coordinates.
add_validated(r) == IF r.kind = "Ok" THEN r.val ELSE Panic

\* Add, chord: from_affine on the coordinates.
add_checked(curve, c, stack) == add_validated(from_affine(curve, c[1], c[2], stack))

\* Add, chord: the point from the slope (lambda.unwrap()).
add_chord(curve, x1, y1, x2, lambda, stack) ==
    IF lambda.kind = "None" THEN Panic
    ELSE add_checked(curve,
                     add_coordinates(curve.base_field, x1, y1, lambda.val,
                                     elem_sub(curve.base_field,
                                              elem_sub(curve.base_field,
                                                       elem_pow(curve.base_field, lambda.val, 2),
                                                       x1),
                                              x2)),
                     stack)

\* impl Add for EllipticCurvePoint.
EllipticCurvePoint_add(curve, self, other, stack) ==
    LET F == curve.base_field
    IN  IF self.kind = "Infinity" THEN other
        ELSE IF other.kind = "Infinity" THEN self
        ELSE LET x1 == self.x
                 y1 == self.y
                 x2 == other.x
                 y2 == other.y
             IN  IF x1 = x2
                 THEN IF y1 = y2
                      THEN \* Point doubling
                           add_doubling(
                               F, x1, y1,
                               elem_div(F,
                                        elem_add(F, elem_mul(F, from(F, 3), elem_pow(F, x1, 2)),
                                                 curve_a(curve)),
                                        elem_mul(F, from(F, 2), y1)))
                      ELSE Infinity
                 ELSE add_chord(curve, x1, y1, x2,
                                elem_div(F, elem_sub(F, y2, y1), elem_sub(F, x2, x1)),
                                stack)

\* One iteration of the loop of mul_uint, given result + self and the
\* doubled self.
mul_uint_step(curve, result, self, scalar, i, len, stack, sum, dbl) ==
    IF sum.kind = "Panic" THEN Panic
    ELSE IF dbl.kind = "Panic" THEN Panic
    ELSE mul_uint_loop(curve,
                       point_conditional_select(curve, result, sum, bit_ct(scalar, i)),
                       dbl, scalar, i + 1, len, stack)

\* The loop of EllipticCurvePoint::mul_uint from iteration i on.
mul_uint_loop(curve, result, self, scalar, i, len, stack) ==
    IF i >= len THEN result
    ELSE mul_uint_step(curve, result, self, scalar, i, len, stack,
                       EllipticCurvePoint_add(curve, result, self, stack),
                       EllipticCurvePoint_add(curve, self, self, stack))

\* EllipticCurvePoint::mul_uint; `sbits` is the width of the scalar's type.
mul_uint(curve, self, scalar, sbits, stack) ==
    mul_uint_loop(curve, infinity(curve), self, scalar, 0, bit_len(sbits), stack)

\* ensure_valid, subgroup check: the answer from [order]point.
in_subgroup(curve, r) ==
    IF r.kind = "Panic" THEN Panic
    ELSE IF r = infinity(curve) THEN Ok(TRUE)
    ELSE Err

\* EllipticCurve::ensure_valid.
ensure_valid(curve, x, y, stack) ==
    LET F == curve.base_field
    IN  IF elem_pow(F, y, 2) # curve_rhs(curve, x) THEN Err
        ELSE IF curve.cofactor # 1
        THEN IF Affine(x, y) \in stack THEN Panic
             ELSE in_subgroup(curve,
                              mul_uint(curve, Affine(x, y), curve.scalar_field.modulus,
                                       curve.base_field.bits, stack \cup {Affine(x, y)}))
        ELSE Ok(TRUE)

\* impl Neg for EllipticCurvePoint.
EllipticCurvePoint_neg(curve, self) ==
    IF self.kind = "Infinity" THEN self
    ELSE Affine(self.x, elem_neg(curve.base_field, self.y))

\* impl Sub for EllipticCurvePoint.
EllipticCurvePoint_sub(curve, self, other) ==
    EllipticCurvePoint_add(curve, self, EllipticCurvePoint_neg(curve, other), {})

\* impl Mul<ModRingElementRef> for EllipticCurvePoint.
EllipticCurvePoint_mul_truncated(curve, self, scalar) ==
    mul_uint(curve, self, to_uint(curve.scalar_field, scalar), curve.scalar_field.bits - 1, {})

EllipticCurvePoint_mul(curve, self, scalar) ==
    mul_uint(curve, self, to_uint(curve.scalar_field, scalar), curve.scalar_field.bits, {})

\* impl Div<ModRingElementRef> for EllipticCurvePoint: None when the scalar
\* has no inverse.
EllipticCurvePoint_div(curve, self, scalar) ==
    LET inv == elem_inv(curve.scalar_field, scalar)
    IN  IF inv.kind = "None" THEN None
        ELSE Some(EllipticCurvePoint_mul(curve, self, inv.val))

\* EllipticCurve::from_x, once sqrt has answered: the point at the root.
from_x_root(x, y) ==
    IF y.kind = "Panic" THEN Panic
    ELSE IF y.val.kind = "None" THEN Ok(None)
    ELSE Ok(Some(Affine(x, y.val.val)))

\* EllipticCurve::from_x.
from_x(curve, x) == from_x_root(x, elem_sqrt(curve.base_field, curve_rhs(curve, x)))

\* EllipticCurve::from_montgomery.
EllipticCurve_from_montgomery(curve, coordinates, bld) ==
    IF coordinates.kind = "None" THEN Ok(infinity(curve))
    ELSE LET x == RingRefExt_from_montgomery(curve.base_field, coordinates.val[1], bld)
             y == RingRefExt_from_montgomery(curve.base_field, coordinates.val[2], bld)
         IN  IF x.kind = "Panic" \/ y.kind = "Panic" THEN Panic
             ELSE from_affine(curve, x.val, y.val, {})

\* The condition of the generator-on-curve ensure! of EllipticCurve::new.
generator_on_curve_skipped(F, a, b, x, y) == TRUE

generator_on_curve(F, a, b, x, y) ==
    elem_pow(F, y, 2) = elem_add(F, elem_add(F, elem_pow(F, x, 3), elem_mul(F, a, x)), b)

\* EllipticCurve::new, the last ensure!: the generator has order `order`;
\* `r` is [order]generator.
new_generator_order(curve, r) ==
    IF r.kind = "Panic" THEN Panic
    ELSE IF r # infinity(curve) THEN Err
    ELSE Ok(curve)

\* EllipticCurve::new from the curve struct on: the order of the generator.
new_with_curve(curve, order, bits) ==
    new_generator_order(curve, mul_uint(curve, generator(curve), order, bits, {}))

\* EllipticCurve::new from the Montgomery forms on: the ensure! checks on
\* the discriminant, the anomalous case and the generator, then the struct.
new_with_elements(F, S, am, bm, xm, ym, c4, c27, bits, modulus, order, cofactor) ==
    IF c4.kind = "Panic" \/ c27.kind = "Panic" THEN Panic
    \* Ensure non-singular
    ELSE IF elem_add(F, elem_mul(F, c4.val, elem_pow(F, am, 3)),
                     elem_mul(F, c27.val, elem_pow(F, bm, 2))) = zero(F)
    THEN Err
    \* Ensure not anomalous
    ELSE IF modulus = order THEN Err
    \* Ensure generator is on curve
    ELSE IF ~generator_on_curve(F, am, bm, xm, ym) THEN Err
    \* Ensure generator has order `order`
    ELSE new_with_curve([base_field      |-> F,
                         scalar_field    |-> S,
                         a_monty         |-> am,
                         b_monty         |-> bm,
                         cofactor        |-> cofactor,
                         generator_monty |-> <<xm, ym>>],
                        order, bits)

\* EllipticCurve::new from the two rings on: the parameters taken into
\* Montgomery form.
new_with_fields(base_field, scalar_field, bits, modulus, a, b, x, y, order, cofactor) ==
    IF base_field.kind = "Panic" \/ scalar_field.kind = "Panic" THEN Panic
    ELSE new_with_elements(base_field.val, scalar_field.val,
                           from(base_field.val, a), from(base_field.val, b),
                           from(base_field.val, x), from(base_field.val, y),
                           RingRefExt_from_u64(base_field.val, 4),
                           RingRefExt_from_u64(base_field.val, 27),
                           bits, modulus, order, cofactor)

\* EllipticCurve::new.
EllipticCurve_new(bits, modulus, a, b, x, y, order, cofactor) ==
    IF ~(a < modulus) \/ ~(b < modulus) \/ ~(x < modulus) \/ ~(y < modulus) THEN Err
    ELSE new_with_fields(ModRing_from_modulus(bits, modulus),
                         ModRing_from_modulus(bits, order),
                         bits, modulus, a, b, x, y, order, cofactor)

\* ------------------------------------------------------------------------
\* A caller of the ring API: one ring, one element held in `acc`, and one
\* call per step.  Second operands are elements made by `from`, or `acc`.
\* ------------------------------------------------------------------------

\* Moduli of the rings exercised: the largest prime of the width and a
\* prime with a leading zero bit.
RingModuli == {13, 31}

\* Exponents given to pow.
MaxPow == 4

\* No call has aborted the caller.
Alive == call.result.kind # "Panic"

\* The call record and the value the caller holds after a call of `acc`.
Returned(op, args, res) ==
    /\ call' = [op |-> op, lhs |-> acc, args |-> args, result |-> res]
    /\ acc' = IF res.kind \in {"Ok", "Some"} THEN res.val ELSE acc
    /\ UNCHANGED <<build, ctx>>

\* Elements a caller can pass as second operand.
RingOperands == {from(ctx, x) : x \in 0 .. (ctx.modulus - 1)} \cup {acc}

InitRing ==
    /\ build \in Builds
    /\ ctx \in {ModRing_from_modulus(BITS, m).val : m \in RingModuli}
    /\ acc = zero(ctx)
    /\ call = NoCall

RingFrom ==
    /\ Alive
    /\ \E x \in Uints : Returned("from", <<x>>, RingRefExt_from(ctx, x))

RingFromU64 ==
    /\ Alive
    /\ \E x \in {0, 1, 2, 3, 4, 27, 32} :
          Returned("from_u64", <<x>>, RingRefExt_from_u64(ctx, x))

RingFromMontgomery ==
    /\ Alive
    /\ \E x \in 0 .. (ctx.modulus - 1) :
          Returned("from_montgomery", <<x>>, RingRefExt_from_montgomery(ctx, x, build))

RingZero ==
    /\ Alive
    /\ Returned("zero", <<>>, RingRefExt_from_montgomery(ctx, zero(ctx), build))

RingOne ==
    /\ Alive
    /\ Returned("one", <<>>, RingRefExt_from_montgomery(ctx, one(ctx), build))

RingRandom ==
    /\ Alive
    /\ \E raw \in Uints :
          /\ RingRefExt_random(ctx, raw, build).kind = "Some"
          /\ Returned("random", <<raw>>, RingRefExt_random(ctx, raw, build).val)

ElemAdd ==
    /\ Alive
    /\ \E b \in RingOperands : Returned("add", <<b>>, Ok(elem_add(ctx, acc, b)))

ElemSub ==
    /\ Alive
    /\ \E b \in RingOperands : Returned("sub", <<b>>, Ok(elem_sub(ctx, acc, b)))

ElemMul ==
    /\ Alive
    /\ \E b \in RingOperands : Returned("mul", <<b>>, Ok(elem_mul(ctx, acc, b)))

ElemNeg ==
    /\ Alive
    /\ Returned("neg", <<>>, Ok(elem_neg(ctx, acc)))

ElemInv ==
    /\ Alive
    /\ Returned("inv", <<>>, elem_inv(ctx, acc))

ElemSquare ==
    /\ Alive
    /\ Returned("square", <<>>, Ok(elem_square(ctx, acc)))

ElemPow ==
    /\ Alive
    /\ \E k \in 0 .. MaxPow : Returned("pow", <<k>>, Ok(elem_pow(ctx, acc, k)))

ElemPowCt ==
    /\ Alive
    /\ \E e \in Uints :
          Returned("pow_ct", <<e>>,
                   RingRefExt_from_montgomery(ctx, elem_pow_ct(ctx, acc, e, BITS), build))

ElemConditionalSelect ==
    /\ Alive
    /\ \E b \in RingOperands, choice \in BOOLEAN :
          Returned("conditional_select", <<b, choice>>,
                   RingRefExt_from_montgomery(
                       ctx, elem_conditional_select(ctx, acc, b, choice), build))

NextRing ==
    \/ RingFrom
    \/ RingFromU64
    \/ RingFromMontgomery
    \/ RingZero
    \/ RingOne
    \/ RingRandom
    \/ ElemAdd
    \/ ElemSub
    \/ ElemMul
    \/ ElemNeg
    \/ ElemInv
    \/ ElemSquare
    \/ ElemPow
    \/ ElemPowCt
    \/ ElemConditionalSelect

SpecRing == InitRing /\ [][NextRing]_vars

\* C10: every ModRingElement a caller holds after any sequence of ring
\* operations has a Montgomery value strictly below the ring modulus.
ElementBelowModulus == acc < ctx.modulus

\* ------------------------------------------------------------------------
\* MulGroup, ModPGroup and the CryptoGroup trait
\* ------------------------------------------------------------------------

\* MulGroup<T>(T): a multiplicative group element, written additively.
MulGroup(value) == [kind |-> "MulGroup", value |-> value]

\* impl Add for MulGroup: the product of the inner values.
MulGroup_add(F, self, other) == MulGroup(elem_mul(F, self.value, other.value))

\* The .unwrap() of Neg and Sub for MulGroup on an optional element.
MulGroup_unwrap(opt) == IF opt.kind = "None" THEN Panic ELSE MulGroup(opt.val)

\* impl Neg for MulGroup: the inverse, which must exist.
MulGroup_neg(F, self) == MulGroup_unwrap(elem_inv(F, self.value))

\* impl Sub for MulGroup: the quotient, which must exist.
MulGroup_sub(F, self, rhs) == MulGroup_unwrap(elem_div(F, self.value, rhs.value))

\* impl Mul<U> for MulGroup with the scalar's Montgomery form taken as the
\* exponent.
MulGroup_mul_by_montgomery(F, S, self, rhs) ==
    MulGroup(elem_pow_ct(F, self.value, rhs, S.bits))

\* impl Mul<U> for MulGroup with Pow<ModRingElement<RingB>>: pow_ct by the
\* scalar's integer value.
MulGroup_mul(F, S, self, rhs) ==
    MulGroup(elem_pow_ct(F, self.value, to_uint(S, rhs), S.bits))

\* ModPGroup::new from the generator in Montgomery form on: the ensure! on
\* its order, then the struct.
modp_with_generator(F, S, g, bits) ==
    IF elem_pow_ct(F, g, S.modulus, bits) # one(F) THEN Err
    ELSE Ok([base_field |-> F, scalar_field |-> S, generator_monty |-> g])

\* ModPGroup::new from the two rings on.
modp_with_fields(base_field, scalar_field, bits, gen) ==
    IF base_field.kind = "Panic" \/ scalar_field.kind = "Panic" THEN Panic
    ELSE modp_with_generator(base_field.val, scalar_field.val,
                             from(base_field.val, gen), bits)

\* ModPGroup::new.
ModPGroup_new(bits, modulus, gen, order) ==
    IF ~(gen < modulus) THEN Err
    ELSE modp_with_fields(ModRing_from_modulus(bits, modulus),
                          ModRing_from_modulus(bits, order), bits, gen)

\* A CryptoGroup value: an EllipticCurve or a ModPGroup.
ECGroup(curve) == [group |-> "EllipticCurve", params |-> curve]

ModPGroup(modp) == [group |-> "ModPGroup", params |-> modp]

\* CryptoGroup::generator.
CryptoGroup_generator(G) ==
    IF G.group = "EllipticCurve" THEN generator(G.params)
    ELSE MulGroup(G.params.generator_monty)

\* BaseElement + BaseElement; an operand that is an abort stays one.
BaseElement_add(G, a, b) ==
    IF a.kind = "Panic" \/ b.kind = "Panic" THEN Panic
    ELSE IF G.group = "EllipticCurve" THEN EllipticCurvePoint_add(G.params, a, b, {})
    ELSE MulGroup_add(G.params.base_field, a, b)

\* BaseElement - BaseElement.
BaseElement_sub(G, a, b) ==
    IF a.kind = "Panic" \/ b.kind = "Panic" THEN Panic
    ELSE IF G.group = "EllipticCurve" THEN EllipticCurvePoint_sub(G.params, a, b)
    ELSE MulGroup_sub(G.params.base_field, a, b)

\* BaseElement * ScalarElement.
BaseElement_mul(G, a, scalar) ==
    IF a.kind = "Panic" THEN Panic
    ELSE IF G.group = "EllipticCurve" THEN EllipticCurvePoint_mul(G.params, a, scalar)
    ELSE MulGroup_mul(G.params.base_field, G.params.scalar_field, a, scalar)

\* BaseElement / ScalarElement once the scalar's inverse is known: None when
\* there is none, else the element times the inverse.
BaseElement_div_by(G, a, inv) ==
    IF a.kind = "Panic" THEN Panic
    ELSE IF inv.kind = "None" THEN None
    ELSE Some(BaseElement_mul(G, a, inv.val))

\* BaseElement / ScalarElement (Div for EllipticCurvePoint and MulGroup).
BaseElement_div(G, a, scalar) ==
    BaseElement_div_by(G, a, elem_inv(G.params.scalar_field, scalar))

\* CryptoGroup::random_scalar: scalar_field().random(rng), where `value` is
\* the draw UintMont::random accepted.
random_scalar(G, value, bld) ==
    RingRefExt_from_montgomery(G.params.scalar_field, value, bld)

\* The draws UintMont::random accepts for the scalar field: value <= max.
ScalarDraws(G) ==
    { d.val : d \in { a \in { random_accept(G.params.scalar_field.bits, raw,
                                             G.params.scalar_field.modulus) :
                                   raw \in 0 .. (Pow2(G.params.scalar_field.bits) - 1) } :
                         a.kind = "Some" } }

\* assert_eq! on two group elements: the abort, or the pair as a record.
test_dh_assert(alice_shared, bob_shared) ==
    IF alice_shared.kind = "Panic" \/ bob_shared.kind = "Panic" THEN Panic
    ELSE IF alice_shared # bob_shared THEN Panic
    ELSE [alice_shared |-> alice_shared, bob_shared |-> bob_shared]

\* test_dh once both private scalars are drawn.
test_dh_shared(G, alice_private, bob_private) ==
    test_dh_assert(
        BaseElement_mul(G, BaseElement_mul(G, CryptoGroup_generator(G), bob_private),
                        alice_private),
        BaseElement_mul(G, BaseElement_mul(G, CryptoGroup_generator(G), alice_private),
                        bob_private))

\* test_dh: the two draws of random_scalar, then the exchange.
test_dh(G, alice_draw, bob_draw, bld) ==
    IF random_scalar(G, alice_draw, bld).kind = "Panic"
           \/ random_scalar(G, bob_draw, bld).kind = "Panic"
    THEN Panic
    ELSE test_dh_shared(G, alice_draw, bob_draw)

\* test_schnorr, the alternative signature: `.unwrap()` of the quotient and
\* the second assert_eq!.
test_schnorr_alternative(public, commitment, recovered, quotient) ==
    IF quotient.kind # "Some" THEN Panic
    ELSE IF quotient.val.kind = "Panic" THEN Panic
    ELSE IF quotient.val # public THEN Panic
    ELSE [commitment  |-> commitment,
          recovered   |-> recovered,
          public      |-> public,
          alternative |-> quotient.val]

\* test_schnorr from the first assert_eq! on.
test_schnorr_verify(G, e, s, public, commitment, recovered) ==
    IF recovered.kind = "Panic" \/ commitment.kind = "Panic" THEN Panic
    ELSE IF recovered # commitment THEN Panic
    ELSE test_schnorr_alternative(
             public, commitment, recovered,
             BaseElement_div(G,
                             BaseElement_sub(G, commitment,
                                             BaseElement_mul(G, CryptoGroup_generator(G), s)),
                             e))

\* test_schnorr once s is known: public, commitment and recovered.
test_schnorr_signature(G, private, nonce, e, s) ==
    test_schnorr_verify(
        G, e, s,
        BaseElement_mul(G, CryptoGroup_generator(G), private),
        BaseElement_mul(G, CryptoGroup_generator(G), nonce),
        BaseElement_add(G,
                        BaseElement_mul(G, CryptoGroup_generator(G), s),
                        BaseElement_mul(G,
                                        BaseElement_mul(G, CryptoGroup_generator(G), private),
                                        e)))

\* test_schnorr: the three draws of random_scalar, s = nonce - e * private,
\* then both verifications.
test_schnorr(G, private_draw, nonce_draw, e_draw, bld) ==
    IF random_scalar(G, private_draw, bld).kind = "Panic"
           \/ random_scalar(G, nonce_draw, bld).kind = "Panic"
           \/ random_scalar(G, e_draw, bld).kind = "Panic"
    THEN Panic
    ELSE test_schnorr_signature(
             G, private_draw, nonce_draw, e_draw,
             elem_sub(G.params.scalar_field, nonce_draw,
                      elem_mul(G.params.scalar_field, e_draw, private_draw)))

\* ------------------------------------------------------------------------
\* ECDSA verification (ecdsa.rs)
\* ------------------------------------------------------------------------

\* CryptoGroup::x_of for a curve: the x-coordinate of the point reduced into
\* the scalar field; the point at infinity has none.
x_of(G, q) ==
    IF q.kind = "Infinity" THEN None
    ELSE Some(from(G.params.scalar_field,
                   to_uint(G.params.base_field, q.x) % G.params.scalar_field.modulus))

\* ECPublicKey::verify, the last ensure!: x_of(q) = r; x_of(q).unwrap()
\* aborts when q has no x-coordinate.
verify_x(r, x) ==
    IF x.kind = "None" THEN Panic
    ELSE IF x.val = r THEN Ok(TRUE)
    ELSE Err

\* ECPublicKey::verify from q = u1 * G + u2 * Q on.
verify_point(G, r, q) == IF q.kind = "Panic" THEN Panic ELSE verify_x(r, x_of(G, q))

\* ECPublicKey::verify from w = s^-1 on: w is `ok_or_else`d, then u1, u2
\* and q are computed.
verify_with_inverse(G, point, message_hash, r, w) ==
    IF w.kind = "None" THEN Err
    ELSE verify_point(
             G, r,
             BaseElement_add(
                 G,
                 BaseElement_mul(G, CryptoGroup_generator(G),
                                 elem_mul(G.params.scalar_field, message_hash, w.val)),
                 BaseElement_mul(G, point, elem_mul(G.params.scalar_field, r, w.val))))

\* ECPublicKey::verify for the key `point`, the hash e and the signature
\* (r, s), all three elements of the scalar field.
ECPublicKey_verify(G, point, message_hash, r, s) ==
    verify_with_inverse(G, point, message_hash, r, elem_inv(G.params.scalar_field, s))

\* ------------------------------------------------------------------------
\* BsiTr031111Codec (decode side): a buffer is a sequence of octets.
\* ------------------------------------------------------------------------

\* Uint::BYTES.
BYTES(bits) == (bits + 7) \div 8

\* The big-endian value of a sequence of octets.
RECURSIVE BeValue(_)
BeValue(bytes) ==
    IF bytes = <<>> THEN 0
    ELSE 256 * BeValue(SubSeq(bytes, 1, Len(bytes) - 1)) + bytes[Len(bytes)]

\* The octets of a big-endian string after its leading zero octets.
RECURSIVE strip_zeros(_)
strip_zeros(bytes) ==
    IF bytes # <<>> /\ Head(bytes) = 0 THEN strip_zeros(Tail(bytes)) ELSE bytes

\* Uint::try_from_be_slice: None when the value does not fit the width
\* (leading zero octets are accepted at any length).
try_from_be_slice(bits, bytes) ==
    LET sig == strip_zeros(bytes)
    IN  IF 8 * (Len(sig) - 1) >= bits THEN None
        ELSE IF BeValue(sig) < Pow2(bits) THEN Some(BeValue(sig)) ELSE None

\* Codec<Uint>::decode, the ok_or_else on the value read, paired with the
\* rest of the buffer.
uint_decoded(value, rest) ==
    IF value.kind = "None" THEN Err ELSE Ok([value |-> value.val, rest |-> rest])

\* Codec<Uint>::decode with uint_bytes = size: the value and the rest of
\* the buffer.
uint_decode(bits, buffer, size) ==
    IF Len(buffer) < size THEN Err
    ELSE uint_decoded(
             try_from_be_slice(
                 bits,
                 SubSeq(SubSeq(buffer, 1, size),
                        (IF size > BYTES(bits) THEN size - BYTES(bits) ELSE 0) + 1, size)),
             SubSeq(buffer, size + 1, Len(buffer)))

\* Codec<ModRingElement>::decode from the uint read on: reduced modulo the
\* modulus, then taken into the ring.
element_reduced(ring, uint) ==
    IF uint.kind = "Err" THEN Err
    ELSE Ok([value |-> from(ring, uint.val.value % ring.modulus), rest |-> uint.val.rest])

\* Codec<ModRingElement>::decode.
element_decode(ring, buffer) ==
    element_reduced(ring, uint_decode(ring.bits, buffer, byte_len(ring.modulus)))

\* Codec<EllipticCurvePoint>::decode, tags 2 and 3: the point from_x
\* found, or its negation, by the parity wanted.
decode_parity(curve, want_even, p) ==
    IF p.kind = "Panic" THEN Panic
    ELSE IF p.val.kind = "None" THEN Err
    ELSE Ok(IF want_even = (bit(to_uint(curve.base_field, p.val.val.y), 0) = 1)
            THEN p.val.val
            ELSE EllipticCurvePoint_neg(curve, p.val.val))

\* Codec<EllipticCurvePoint>::decode, tags 2 and 3, from the x read on.
decode_compressed(curve, want_even, x) ==
    IF x.kind = "Err" THEN Err
    ELSE decode_parity(curve, want_even, from_x(curve, x.val.value))

\* Codec<EllipticCurvePoint>::decode, tag 4, from the y read on.
decode_affine(curve, x, y) ==
    IF y.kind = "Err" THEN Err
    ELSE from_affine(curve, x.val.value, y.val.value, {})

\* Codec<EllipticCurvePoint>::decode, tag 4, from the x read on.
decode_uncompressed(curve, x) ==
    IF x.kind = "Err" THEN Err
    ELSE decode_affine(curve, x, element_decode(curve.base_field, x.val.rest))

\* Codec<EllipticCurvePoint>::decode.
point_decode(curve, buffer) ==
    IF buffer = <<>> THEN Panic
    ELSE IF Head(buffer) = 0 THEN Ok(infinity(curve))
    ELSE IF Head(buffer) \in {2, 3}
    THEN decode_compressed(curve, Head(buffer) = 2,
                           element_decode(curve.base_field, Tail(buffer)))
    ELSE IF Head(buffer) = 4
    THEN decode_uncompressed(curve, element_decode(curve.base_field, Tail(buffer)))
    ELSE Err

\* ------------------------------------------------------------------------
\* Reference arithmetic over plain residues: the short-Weierstrass group law
\* as a textbook states it, used to say what the claims mean.
\* ------------------------------------------------------------------------

\* x^-1 mod p for a prime p and x # 0 (Fermat).
RefInv(p, x) == PowMod(x, p - 2, p)

\* P + Q on y^2 = x^3 + a x + b over F_p, points in plain coordinates.
RefAdd(p, a, P, Q) ==
    IF P.kind = "Infinity" THEN Q
    ELSE IF Q.kind = "Infinity" THEN P
    ELSE IF P.x = Q.x /\ (P.y + Q.y) % p = 0 THEN Infinity
    ELSE LET l == IF P = Q
                  THEN ((3 * P.x * P.x + a) * RefInv(p, (2 * P.y) % p)) % p
                  ELSE (((Q.y - P.y + p) % p) * RefInv(p, (Q.x - P.x + p) % p)) % p
             x3 == (l * l + 2 * p - P.x - Q.x) % p
             y3 == (l * ((P.x - x3 + p) % p) + p - P.y) % p
         IN  Affine(x3, y3)

\* [k]P by k-fold addition.
RECURSIVE RefMul(_, _, _, _)
RefMul(p, a, k, P) == IF k = 0 THEN Infinity ELSE RefAdd(p, a, RefMul(p, a, k - 1, P), P)

\* (x, y) satisfies y^2 = x^3 + a x + b over F_p.
RefOnCurve(p, a, b, x, y) == (y * y) % p = (x * x * x + a * x + b) % p

\* 4a^3 + 27b^2 is not 0 mod p.
RefNonSingular(p, a, b) == (4 * a * a * a + 27 * b * b) % p # 0

\* A point of the model in plain coordinates.
PlainPoint(curve, P) ==
    IF P.kind = "Affine"
    THEN Affine(to_uint(curve.base_field, P.x), to_uint(curve.base_field, P.y))
    ELSE P

\* ------------------------------------------------------------------------
\* A caller of EllipticCurve::new: `ctx` holds the parameter tuple.
\* ------------------------------------------------------------------------

\* Parameter tuples handed to EllipticCurve::new.  With cofactor 1: every
\* generator candidate of the width, over both primes the width admits
\* (from_u64(27) needs 27 < p), with coefficients and orders that make each
\* check of the constructor pass and fail.  With a cofactor other than 1 the
\* chord branch of Add re-validates every sum, so the tuples are over two
\* curves of composite group order (24 and 26).
NewModuli == {29, 31}

NewA == {1, 30}

NewB == {2, 28, 30}

NewOrders == {3, 23, 24, 31}

CofactorB == {2, 4}

CofactorOrders == {3, 13}

NewCofactors == {2, 8}

NewParams ==
    [modulus : NewModuli, a : NewA, b : NewB, x : Uints, y : Uints,
     order : NewOrders, cofactor : {1}]
    \cup
    [modulus : {31}, a : {1}, b : CofactorB, x : Uints, y : Uints,
     order : CofactorOrders, cofactor : NewCofactors]

InitNew ==
    /\ build \in Builds
    /\ ctx \in NewParams
    /\ acc = None
    /\ call = NoCall

CurveNew ==
    /\ call.op = "none"
    /\ call' = [op     |-> "new",
                result |-> EllipticCurve_new(BITS, ctx.modulus, ctx.a, ctx.b, ctx.x, ctx.y,
                                             ctx.order, ctx.cofactor)]
    /\ acc' = acc
    /\ UNCHANGED <<build, ctx>>

NextNew == CurveNew

SpecNew == InitNew /\ [][NextNew]_vars

\* C5: EllipticCurve::new returns Ok only if a, b, gx, gy < p, the curve is
\* non-singular, the generator is on the curve, [n]G is the point at
\* infinity and p # n.
NewOkOnlyIfValid ==
    (call.op = "new" /\ call.result.kind = "Ok") =>
        /\ ctx.a < ctx.modulus /\ ctx.b < ctx.modulus
        /\ ctx.x < ctx.modulus /\ ctx.y < ctx.modulus
        /\ RefNonSingular(ctx.modulus, ctx.a, ctx.b)
        /\ RefOnCurve(ctx.modulus, ctx.a, ctx.b, ctx.x, ctx.y)
        /\ RefMul(ctx.modulus, ctx.a, ctx.order, Affine(ctx.x, ctx.y)) = Infinity
        /\ ctx.modulus # ctx.order

\* C5 witness: the constructor has returned a curve.
NewReturnedOk == call.op = "new" /\ call.result.kind = "Ok"

\* The five construction invariants of a parameter tuple.
RefValidParams(t) ==
    /\ t.a < t.modulus /\ t.b < t.modulus /\ t.x < t.modulus /\ t.y < t.modulus
    /\ RefNonSingular(t.modulus, t.a, t.b)
    /\ RefOnCurve(t.modulus, t.a, t.b, t.x, t.y)
    /\ RefMul(t.modulus, t.a, t.order, Affine(t.x, t.y)) = Infinity
    /\ t.modulus # t.order

\* C6: EllipticCurve::new answers every parameter tuple that breaks one of
\* the construction invariants with an error result; it never aborts on one.
NewInvalidIsErr ==
    (call.op = "new" /\ ~RefValidParams(ctx)) => call.result.kind = "Err"

\* ------------------------------------------------------------------------
\* A caller of the point API: `ctx` is a curve EllipticCurve::new returned,
\* `acc` the point the caller holds (None until a constructor returns one).
\* ------------------------------------------------------------------------

\* The curves exercised, as EllipticCurve::new returns them: one of prime
\* group order 23 over p = 29 (p mod 4 = 1), and the curve y^2 = x^3 + x + 2
\* over F_31 (p mod 4 = 3) of group order 24 with a generator of order 3,
\* once with cofactor 1 and once with cofactor 8.
CurveParams ==
    { <<29, 1, 12, 2, 14, 23, 1>>,
      <<31, 1, 2, 6, 10, 3, 1>>,
      <<31, 1, 2, 6, 10, 3, 8>> }

Curves ==
    { r.val : r \in { m \in { EllipticCurve_new(BITS, t[1], t[2], t[3], t[4], t[5], t[6], t[7]) :
                               t \in CurveParams } : m.kind = "Ok" } }

\* The elements of a ring.
Elements(ring) == {from(ring, v) : v \in 0 .. (ring.modulus - 1)}

\* The points from_affine returns on each curve.
AffineTable ==
    [curve \in Curves |->
        {r.val : r \in {m \in {from_affine(curve, x, y, {}) :
                                 x, y \in Elements(curve.base_field)} : m.kind = "Ok"}}]

\* Second operands: a point from_affine made, the point at infinity, or
\* the point held.
PointOperands == AffineTable[ctx] \cup {infinity(ctx)} \cup {pt \in {acc} : pt.kind # "None"}

\* Octets and buffers handed to the decoder: empty, a tag alone, a tag and
\* one coordinate, and the uncompressed tag with two coordinates.
DecodeTags == {0, 2, 3, 4, 5}

DecodeOctets == 0 .. 32

DecodeBuffers ==
    {<<>>} \cup {<<t>> : t \in DecodeTags}
    \cup {<<t, x>> : t \in DecodeTags, x \in DecodeOctets}
    \cup {<<4, x, y>> : x \in DecodeOctets, y \in DecodeOctets}

InitCurve ==
    /\ build \in Builds
    /\ ctx \in Curves
    /\ acc = None
    /\ call = NoCall

\* Constructors do not read the point held, so they are taken as the
\* caller's first call.
FirstCall == call.op = "none"

\* A constructor returned `res` (Ok(point), Err or Panic).
Constructed(op, args, res) ==
    /\ call' = [op |-> op, lhs |-> acc, args |-> args, result |-> res]
    /\ acc' = IF res.kind = "Ok" THEN res.val ELSE acc
    /\ UNCHANGED <<build, ctx>>

\* An operator on points returned the point `pt`, or aborted.
Operated(op, args, pt) ==
    /\ Alive
    /\ acc.kind # "None"
    /\ call' = [op |-> op, lhs |-> acc, args |-> args,
                result |-> IF pt.kind = "Panic" THEN Panic ELSE Ok(pt)]
    /\ acc' = IF pt.kind = "Panic" THEN acc ELSE pt
    /\ UNCHANGED <<build, ctx>>

CurveGenerator == FirstCall /\ Constructed("generator", <<>>, Ok(generator(ctx)))

CurveInfinity == FirstCall /\ Constructed("infinity", <<>>, Ok(infinity(ctx)))

CurveFromAffine ==
    /\ FirstCall
    /\ \E x, y \in Elements(ctx.base_field) :
           Constructed("from_affine", <<x, y>>, from_affine(ctx, x, y, {}))

CurveFromX ==
    /\ FirstCall
    /\ \E x \in Elements(ctx.base_field) :
           LET p == from_x(ctx, x)
           IN  Constructed("from_x", <<x>>,
                           IF p.kind = "Panic" THEN Panic
                           ELSE IF p.val.kind = "None" THEN Err ELSE Ok(p.val.val))

\* from_montgomery is given None or a pair of reduced Montgomery values.
CurveFromMontgomery ==
    /\ FirstCall
    /\ \E coordinates \in {None} \cup {Some(<<x, y>>) : x, y \in 0 .. (ctx.base_field.modulus - 1)} :
           Constructed("from_montgomery", coordinates,
                       EllipticCurve_from_montgomery(ctx, coordinates, build))

CurveDecode ==
    /\ FirstCall
    /\ \E buffer \in DecodeBuffers :
           Constructed("decode", buffer, point_decode(ctx, buffer))

PointAdd ==
    \E other \in PointOperands :
        Operated("add", other, EllipticCurvePoint_add(ctx, acc, other, {}))

PointSub ==
    \E other \in PointOperands :
        Operated("sub", other, EllipticCurvePoint_sub(ctx, acc, other))

PointNeg == Operated("neg", <<>>, EllipticCurvePoint_neg(ctx, acc))

\* Scalars given to * by the caller of the point API.
MaxScalar == 3

PointScalars == {from(ctx.scalar_field, k) : k \in {v \in 0 .. MaxScalar : v < ctx.scalar_field.modulus}}

PointMul ==
    \E scalar \in PointScalars :
        Operated("mul", scalar, EllipticCurvePoint_mul(ctx, acc, scalar))

PointConditionalSelect ==
    \E other \in PointOperands, choice \in BOOLEAN :
        Operated("conditional_select", <<other, choice>>,
                 point_conditional_select(ctx, acc, other, choice))

NextCurve ==
    \/ CurveGenerator
    \/ CurveInfinity
    \/ CurveFromAffine
    \/ CurveFromX
    \/ CurveFromMontgomery
    \/ CurveDecode
    \/ PointAdd
    \/ PointSub
    \/ PointNeg
    \/ PointMul
    \/ PointConditionalSelect

SpecCurve == InitCurve /\ [][NextCurve]_vars

\* The curve of the model over plain residues.
PlainP(curve) == curve.base_field.modulus

PlainA(curve) == to_uint(curve.base_field, curve.a_monty)

PlainB(curve) == to_uint(curve.base_field, curve.b_monty)

\* Infinity, or an affine point on the curve that, on a curve whose
\* cofactor is not 1, the group order sends to infinity.
RefPointValid(curve, P) ==
    \/ P.kind = "Infinity"
    \/ /\ P.kind = "Affine"
       /\ RefOnCurve(PlainP(curve), PlainA(curve), PlainB(curve),
                     PlainPoint(curve, P).x, PlainPoint(curve, P).y)
       /\ curve.cofactor # 1 =>
              RefMul(PlainP(curve), PlainA(curve), curve.scalar_field.modulus,
                     PlainPoint(curve, P)) = Infinity

\* C7: every point the caller obtains through the API is Infinity or an
\* affine point on the curve and, when the cofactor is not 1, in the
\* subgroup of the stated order.
PointsAreValid == acc.kind # "None" => RefPointValid(ctx, acc)

\* -P over plain residues.
RefNeg(p, P) == IF P.kind = "Infinity" THEN P ELSE Affine(P.x, (p - P.y) % p)

\* C8: + returns the group-law sum (a point with y = 0 added to itself
\* gives infinity), negation maps (x, y) to (x, -y), and P - Q = P + (-Q).
AddIsGroupLaw ==
    LET p == PlainP(ctx)
        a == PlainA(ctx)
        P == PlainPoint(ctx, call.lhs)
    IN  /\ call.op = "add" =>
               /\ call.result.kind = "Ok"
               /\ PlainPoint(ctx, call.result.val) = RefAdd(p, a, P, PlainPoint(ctx, call.args))
        /\ call.op = "neg" =>
               /\ call.result.kind = "Ok"
               /\ PlainPoint(ctx, call.result.val) = RefNeg(p, P)
        /\ call.op = "sub" =>
               /\ call.result.kind = "Ok"
               /\ PlainPoint(ctx, call.result.val)
                      = RefAdd(p, a, P, RefNeg(p, PlainPoint(ctx, call.args)))

\* ------------------------------------------------------------------------
\* Scalar multiplication in a CryptoGroup: `ctx` is the group, each step one
\* computation from the generator and scalars of the scalar field.
\* ------------------------------------------------------------------------

\* Mod-P groups as ModPGroup::new returns them: the subgroup of order 11 of
\* F_23*, and the generator 2 of order 5 in F_31* with the stated order 15.
ModPParams == { <<23, 2, 11>>, <<31, 2, 15>> }

ModPGroups ==
    { r.val : r \in { m \in { ModPGroup_new(BITS, t[1], t[2], t[3]) : t \in ModPParams } :
                         m.kind = "Ok" } }

Groups == {ECGroup(c) : c \in Curves} \cup {ModPGroup(g) : g \in ModPGroups}

Scalars == Elements(ctx.params.scalar_field)

InitGroup ==
    /\ build \in Builds
    /\ ctx \in Groups
    /\ acc = CryptoGroup_generator(ctx)
    /\ call = NoCall

Computed(op, args, res) ==
    /\ call' = [op |-> op, args |-> args, result |-> res]
    /\ UNCHANGED <<build, ctx, acc>>

\* test_dh, for every pair of draws random_scalar can make.
TestDh ==
    /\ FirstCall
    /\ \E alice_draw, bob_draw \in ScalarDraws(ctx) :
           Computed("test_dh", <<alice_draw, bob_draw>>,
                    test_dh(ctx, alice_draw, bob_draw, build))

\* (G * a) * b next to G * (a * b).
MulProduct ==
    /\ FirstCall
    /\ \E a, b \in Scalars :
           Computed("mul_product", <<a, b>>,
                    [twice   |-> BaseElement_mul(ctx, BaseElement_mul(ctx, acc, a), b),
                     product |-> BaseElement_mul(ctx, acc,
                                                 elem_mul(ctx.params.scalar_field, a, b))])

\* The largest small draw taken for the challenge e of test_schnorr.
MaxChallenge == 5

\* Draws taken for e: the small ones (0, units and, where the order is
\* composite, non-units), the largest reduced one and the order itself.
ChallengeDraws(G) ==
    {d \in ScalarDraws(G) : d <= MaxChallenge \/ d + 1 >= G.params.scalar_field.modulus}

\* test_schnorr, for every private scalar and nonce random_scalar can draw
\* and the challenges of ChallengeDraws.
TestSchnorr ==
    /\ FirstCall
    /\ \E private_draw, nonce_draw \in ScalarDraws(ctx), e_draw \in ChallengeDraws(ctx) :
           Computed("test_schnorr", <<private_draw, nonce_draw, e_draw>>,
                    test_schnorr(ctx, private_draw, nonce_draw, e_draw, build))

\* G * k + G * (-k).
MulNeg ==
    /\ FirstCall
    /\ \E k \in Scalars :
           Computed("mul_neg", <<k>>,
                    BaseElement_add(ctx, BaseElement_mul(ctx, acc, k),
                                    BaseElement_mul(ctx, acc,
                                                    elem_neg(ctx.params.scalar_field, k))))

\* G * (k1 + k2) next to G * k1 + G * k2.
MulSum ==
    /\ FirstCall
    /\ \E k1, k2 \in Scalars :
           Computed("mul_sum", <<k1, k2>>,
                    [of_sum |-> BaseElement_mul(ctx, acc,
                                                elem_add(ctx.params.scalar_field, k1, k2)),
                     sum    |-> BaseElement_add(ctx, BaseElement_mul(ctx, acc, k1),
                                                BaseElement_mul(ctx, acc, k2))])

\* The generator of a curve multiplied by the integer n, its order.
MulOrder ==
    /\ FirstCall
    /\ ctx.group = "EllipticCurve"
    /\ Computed("mul_order", <<ctx.params.scalar_field.modulus>>,
                mul_uint(ctx.params, acc, ctx.params.scalar_field.modulus,
                         ctx.params.scalar_field.bits, {}))

NextGroup ==
    \/ TestDh
    \/ MulProduct
    \/ TestSchnorr
    \/ MulNeg
    \/ MulSum
    \/ MulOrder

SpecGroup == InitGroup /\ [][NextGroup]_vars

\* The Schnorr relation of test_schnorr on scalars random_scalar returned:
\* G*(nonce - e*private) + (G*private)*e is G*nonce.
SchnorrRecovered(G, private, e, s) ==
    BaseElement_add(G,
                    BaseElement_mul(G, CryptoGroup_generator(G), s),
                    BaseElement_mul(G, BaseElement_mul(G, CryptoGroup_generator(G), private),
                                    e))

SchnorrRelation(G, private, nonce, e, bld) ==
    /\ random_scalar(G, private, bld).kind # "Panic"
    /\ random_scalar(G, nonce, bld).kind # "Panic"
    /\ random_scalar(G, e, bld).kind # "Panic"
    /\ SchnorrRecovered(G, private, e,
                        elem_sub(G.params.scalar_field, nonce,
                                 elem_mul(G.params.scalar_field, e, private)))
           = BaseElement_mul(G, CryptoGroup_generator(G), nonce)
    /\ BaseElement_mul(G, CryptoGroup_generator(G), nonce).kind # "Panic"

\* The draws that are scalars of the scalar field: below its modulus.
ScalarsOfField(G, draws) ==
    \A i \in 1 .. Len(draws) : draws[i] < G.params.scalar_field.modulus

\* C4: in every group, elliptic curve or Mod-P, (G*a)*b = (G*b)*a = G*(a*b)
\* for all scalars of the scalar field, so both Diffie-Hellman parties of
\* test_dh derive the same element, and the Schnorr relation
\* G*(k - e*x) + (G*x)*e = G*k holds in test_schnorr (whose later division
\* by e is no part of the relation).
ScalarMulRespectsField ==
    /\ (call.op = "test_dh" /\ ScalarsOfField(ctx, call.args)) =>
           /\ call.result # Panic
           /\ call.result.alice_shared = call.result.bob_shared
    /\ call.op = "mul_product" =>
           /\ call.result.twice = call.result.product
           /\ call.result.twice.kind # "Panic"
    /\ (call.op = "test_schnorr" /\ ScalarsOfField(ctx, call.args)) =>
           IF call.result = Panic
           THEN SchnorrRelation(ctx, call.args[1], call.args[2], call.args[3], build)
           ELSE call.result.recovered = call.result.commitment

\* C4 witness: a Diffie-Hellman exchange with distinct private scalars of
\* the scalar field, neither of them 0 or 1, produced a shared element
\* other than the generator in a Mod-P group.
DhSharedNontrivial ==
    /\ call.op = "test_dh"
    /\ ctx.group = "ModPGroup"
    /\ ScalarsOfField(ctx, call.args)
    /\ call.args[1] # call.args[2]
    /\ call.args[1] \notin {zero(ctx.params.scalar_field), one(ctx.params.scalar_field)}
    /\ call.args[2] \notin {zero(ctx.params.scalar_field), one(ctx.params.scalar_field)}
    /\ call.result # Panic
    /\ call.result.alice_shared \notin {acc, MulGroup(one(ctx.params.base_field))}

\* C9: on every curve, [k]G + [-k]G is the point at infinity, [k1 + k2]G =
\* [k1]G + [k2]G, and G multiplied by the integer n is the point at infinity.
ScalarMulIsHomomorphism ==
    ctx.group = "EllipticCurve" =>
        /\ call.op = "mul_neg" => call.result = Infinity
        /\ call.op = "mul_sum" =>
               /\ call.result.of_sum = call.result.sum
               /\ call.result.sum.kind # "Panic"
        /\ call.op = "mul_order" => call.result = Infinity

\* C9 witness: two scalars whose sum wraps around the order gave the same
\* affine point on both sides.
MulSumWrapped ==
    /\ call.op = "mul_sum"
    /\ ctx.group = "EllipticCurve"
    /\ to_uint(ctx.params.scalar_field, call.args[1])
           + to_uint(ctx.params.scalar_field, call.args[2]) > ctx.params.scalar_field.modulus
    /\ call.result.sum.kind = "Affine"

\* ------------------------------------------------------------------------
\* ECDSA: `ctx` is the curve, `acc` the public key Q = [d]G.
\* ------------------------------------------------------------------------

\* Private keys d = 1 .. MaxKey and message hashes e = 0 .. MaxHash.
MaxKey == 2

MaxHash == 3

\* The scalar of the scalar field with the integer value v.
Scalar(v) == from(ctx.params.scalar_field, v % ctx.params.scalar_field.modulus)

PrivateKeys == {d \in 1 .. MaxKey : d < ctx.params.scalar_field.modulus}

Hashes == {Scalar(e) : e \in {v \in 0 .. MaxHash : v < ctx.params.scalar_field.modulus}}

InitEcdsa ==
    /\ build = "release"
    /\ ctx \in {ECGroup(c) : c \in Curves}
    /\ acc = None
    /\ call = NoCall

\* ECPublicKey::new with the point [d]G.
KeyNew ==
    /\ FirstCall
    /\ \E d \in PrivateKeys :
           /\ acc' = BaseElement_mul(ctx, CryptoGroup_generator(ctx), Scalar(d))
           /\ call' = [op |-> "new", args |-> <<d>>, result |-> Ok(TRUE)]
           /\ UNCHANGED <<build, ctx>>

\* verify with any signature (r, s) of the scalar field.
Verify ==
    /\ call.op = "new"
    /\ \E e \in Hashes, r, s \in Scalars :
           /\ call' = [op |-> "verify", args |-> <<e, r, s>>,
                       result |-> ECPublicKey_verify(ctx, acc, e, r, s)]
           /\ UNCHANGED <<build, ctx, acc>>

\* The x-coordinate of [k]G reduced modulo n, over plain residues (n when
\* [k]G is the point at infinity, which has none).
RefR(curve, k) ==
    LET R == RefMul(PlainP(curve), PlainA(curve), k, PlainPoint(curve, generator(curve)))
    IN  IF R.kind = "Infinity" THEN curve.scalar_field.modulus
        ELSE R.x % curve.scalar_field.modulus

\* The signature a reference signer makes with the key d and the nonce k
\* for the hash e: r = x([k]G) mod n, s = k^-1 (e + r d) mod n.
RefSign(curve, d, k, e) ==
    LET n == curve.scalar_field.modulus
        r == RefR(curve, k)
    IN  [r |-> r, s |-> (RefInv(n, k) * ((e + r * d) % n)) % n]

\* verify with the signature `sig` a signer made for the hash e.
VerifySigned(e, sig) ==
    /\ sig.r # 0
    /\ sig.s # 0
    /\ call' = [op |-> "verify", args |-> <<Scalar(e), Scalar(sig.r), Scalar(sig.s)>>,
                signed |-> TRUE,
                result |-> ECPublicKey_verify(ctx, acc, Scalar(e), Scalar(sig.r),
                                              Scalar(sig.s))]
    /\ UNCHANGED <<build, ctx, acc>>

\* verify with the signature of the reference signer for the key held.
SignVerify ==
    /\ call.op = "new"
    /\ \E k \in 1 .. (ctx.params.scalar_field.modulus - 1),
          e \in {v \in 0 .. MaxHash : v < ctx.params.scalar_field.modulus} :
           VerifySigned(e, RefSign(ctx.params, call.args[1], k, e))

NextEcdsa ==
    \/ KeyNew
    \/ Verify
    \/ SignVerify

SpecEcdsa == InitEcdsa /\ [][NextEcdsa]_vars

\* The verification equation over plain residues: s is invertible modulo
\* n, X = [e/s]G + [r/s]Q is not the point at infinity, and x(X) mod n = r.
RefVerifies(curve, Q, e, r, s) ==
    LET p == PlainP(curve)
        a == PlainA(curve)
        n == curve.scalar_field.modulus
        w == inv_mod(s, n)
    IN  /\ w.kind = "Some"
        /\ LET X == RefAdd(p, a,
                           RefMul(p, a, (e * w.val) % n, PlainPoint(curve, generator(curve))),
                           RefMul(p, a, (r * w.val) % n, PlainPoint(curve, Q)))
           IN  /\ X.kind = "Affine"
               /\ X.x % n = r

\* C1: verify returns Ok exactly when s is invertible, X is not the point at
\* infinity and x(X) mod n = r, and an error result in every other case.
VerifyIffEquation ==
    call.op = "verify" =>
        LET S == ctx.params.scalar_field
        IN  call.result =
                IF RefVerifies(ctx.params, acc, to_uint(S, call.args[1]),
                               to_uint(S, call.args[2]), to_uint(S, call.args[3]))
                THEN Ok(TRUE) ELSE Err

\* ------------------------------------------------------------------------
\* RSASSA-PSS verification (rsa.rs) and the SOD signature check
\* (signature.rs).  Octet strings are sequences of 0 .. 255.
\* ------------------------------------------------------------------------

\* Width of the Uint type the RSA key is instantiated with.
RsaBits == 26

\* Uint::to_be_bytes_vec: the value in exactly BYTES octets, big-endian.
to_be_bytes(bits, x) ==
    [i \in 1 .. BYTES(bits) |-> (x \div Pow2(8 * (BYTES(bits) - i))) % 256]

\* u8 ^ u8.
RECURSIVE xor(_, _)
xor(a, b) ==
    IF a = 0 THEN b
    ELSE IF b = 0 THEN a
    ELSE 2 * xor(a \div 2, b \div 2) + ((a + b) % 2)

\* Output length in octets of a digest algorithm (scaled down with the
\* Uint width).
digest_len(algo) == IF algo = "Sha256" THEN 2 ELSE 1

\* The compression of a digest algorithm: a deterministic fold over the
\* input octets, different for each algorithm.
RECURSIVE digest_fold(_, _, _)
digest_fold(algo, h, data) ==
    IF data = <<>> THEN h
    ELSE digest_fold(algo,
                     IF algo = "Sha256"
                     THEN (h * 31421 + Head(data) + 6927) % 65536
                     ELSE (h * 167 + Head(data) + 13) % 256,
                     Tail(data))

\* DigestAlgorithmIdentifier::hash_bytes.
hash_bytes(algo, data) ==
    LET h == digest_fold(algo, IF algo = "Sha256" THEN 27183 ELSE 90, data)
    IN  [i \in 1 .. digest_len(algo) |->
            (h \div Pow2(8 * (digest_len(algo) - i))) % 256]

\* The loop of mgf1 from the given mask and counter on.
RECURSIVE mgf1_loop(_, _, _, _, _)
mgf1_loop(digest_algo, seed, out_len, mask, counter) ==
    IF Len(mask) >= out_len THEN SubSeq(mask, 1, out_len)
    ELSE mgf1_loop(digest_algo, seed, out_len,
                   mask \o hash_bytes(digest_algo, seed \o to_be_bytes(32, counter)),
                   counter + 1)

\* mgf1 without mask.truncate(out_len).
mgf1_untruncated(digest_algo, seed, out_len) ==
    IF out_len = 0 THEN <<>>
    ELSE mgf1_loop(digest_algo, seed, out_len, <<>>, 0)
         \o hash_bytes(digest_algo, seed \o to_be_bytes(32, 0))

\* mgf1.
mgf1(digest_algo, seed, out_len) == mgf1_loop(digest_algo, seed, out_len, <<>>, 0)

\* MaskGenAlgorithm.
Mgf1(digest_algo) == [kind |-> "Mgf1", algo |-> digest_algo]

UnknownMaskGen == [kind |-> "Unknown"]

\* RsaPssParameters; salt_length and trailer_field are DER INTEGERs, kept
\* as the octets Int::as_bytes returns.
RsaPssParameters(hash_algorithm, mask_gen_algorithm, salt_length, trailer_field) ==
    [hash_algorithm     |-> hash_algorithm,
     mask_gen_algorithm |-> mask_gen_algorithm,
     salt_length        |-> salt_length,
     trailer_field      |-> trailer_field]

\* SignatureAlgorithmIdentifier.
RsaPss(params) == [kind |-> "RsaPss", params |-> params]

UnknownAlgorithm == [kind |-> "Unknown"]

\* TryFrom<SubjectPublicKeyInfo> for RSAPublicKey (the Rsa variant).
RSAPublicKey_try_from(bits, modulus, public_exponent) ==
    IF modulus >= Pow2(bits) THEN Err
    ELSE LET ring == ModRing_from_modulus(bits, modulus)
         IN  IF ring.kind = "Panic" THEN Panic
             ELSE IF public_exponent >= Pow2(bits) THEN Err
             ELSE Ok([ring |-> ring.val, public_exponent |-> public_exponent])

\* `0xff >> shift` on u8: a shift by the full width overflows, which aborts
\* with overflow checks (debug) and wraps the shift amount without them.
u8_mask(shift, bld) ==
    IF shift >= 8
    THEN IF bld = "debug" THEN Panic ELSE Ok(255 \div Pow2(shift % 8))
    ELSE Ok(255 \div Pow2(shift))

\* The backward scan of verify_pss for the 0x01 separator, from index i
\* (0-based) down: the position found, or None.
RECURSIVE find_one(_, _)
find_one(db_unmasked, i) ==
    IF i < 0 THEN None
    ELSE IF db_unmasked[i + 1] = 1 THEN Some(i)
    ELSE IF db_unmasked[i + 1] # 0 THEN None
    ELSE find_one(db_unmasked, i - 1)

\* RSAPublicKey::verify_pss.  `message` and `signature` are elements of the
\* key's ring (the two ensure!(ring == ring) hold for every caller).
RSAPublicKey_verify_pss(key, message, signature, params, bld) ==
    LET ring          == key.ring
        ring_bit_len  == bit_len(ring.bits)
        digest_algo   == params.hash_algorithm
        salt_len      == params.salt_length[1]
        trailer_field == params.trailer_field[1]
        em_elem       == RingRefExt_from_montgomery(
                             ring, elem_pow_ct(ring, signature, key.public_exponent, ring.bits),
                             bld)
        em_len        == (bit_len(ring.bits) + 7) \div 8
        hash_len      == Len(hash_bytes(digest_algo, <<>>))
    IN  IF trailer_field # 1 THEN Err
        ELSE IF em_elem.kind = "Panic" THEN Panic
        ELSE LET em_bytes == to_be_bytes(ring.bits, to_uint(ring, em_elem.val))
             IN  IF em_bytes[Len(em_bytes)] # 188 THEN Err
                 ELSE IF ~(em_len >= hash_len + salt_len + 2) THEN Err
                 ELSE IF params.mask_gen_algorithm.kind # "Mgf1" THEN Err
                 ELSE
        LET db_len   == em_len - hash_len - 1
            db       == SubSeq(em_bytes, 1, db_len)
            h        == SubSeq(em_bytes, db_len + 1, db_len + hash_len)
            mgf_mask == mgf1(params.mask_gen_algorithm.algo, h, db_len)
            em_bits  == ring_bit_len - 1
            top      == u8_mask(8 * em_len - em_bits, bld)
        IN  IF top.kind = "Panic" THEN Panic
            ELSE
        LET db_unmasked == [i \in 1 .. db_len |->
                               IF i = 1 THEN xor(db[i], mgf_mask[i]) % (top.val + 1)
                               ELSE xor(db[i], mgf_mask[i])]
            salt_start  == db_len - salt_len
            one_pos     == find_one(db_unmasked, salt_start - 1)
        IN  IF one_pos.kind = "None" THEN Err
            ELSE IF \E i \in 1 .. one_pos.val : db_unmasked[i] # 0 THEN Err
            ELSE
        LET salt          == SubSeq(db_unmasked, one_pos.val + 2, db_len)
            message_bytes == to_be_bytes(ring.bits, to_uint(ring, message))
            pre_data      == <<0, 0, 0, 0, 0, 0, 0, 0>>
                             \o SubSeq(message_bytes, Len(message_bytes) - hash_len + 1,
                                       Len(message_bytes))
                             \o salt
            h_prime       == hash_bytes(digest_algo, pre_data)
        IN  IF Len(salt) # salt_len THEN Err
            ELSE IF h_prime # h THEN Err
            ELSE Ok(TRUE)

\* RSAPublicKey::verify.
RSAPublicKey_verify(key, message, signature, algorithm, bld) ==
    IF algorithm.kind = "RsaPss"
    THEN RSAPublicKey_verify_pss(key, message, signature, algorithm.params, bld)
    ELSE Err

\* Uint::from_be_slice: aborts when the value does not fit the width.
from_be_slice(bits, bytes) == unwrap(try_from_be_slice(bits, bytes))

\* EfSod::verify_signature from the signature octets on: the signature is
\* read into a Uint, taken into the key's ring and verified.
EfSod_verify_signature(key, message, signature, algorithm, bld) ==
    LET signature_uint == from_be_slice(key.ring.bits, signature)
    IN  IF signature_uint.kind = "Panic" THEN Panic
        ELSE LET signature_elem == RingRefExt_from(key.ring, signature_uint.val)
             IN  IF signature_elem.kind = "Panic" THEN Panic
                 ELSE RSAPublicKey_verify(key, message, signature_elem.val, algorithm, bld)

\* ------------------------------------------------------------------------
\* Reference RSASSA-PSS (RFC 8017 section 9.1) over plain integers and
\* octet strings: the encoding a signer produces and the conditions a
\* verifier has to establish.
\* ------------------------------------------------------------------------

\* emBits = k - 1 and emLen = ceil(emBits / 8) for a modulus of k bits.
RefEmBits(n) == uint_bit_len(n) - 1

RefEmLen(n) == (RefEmBits(n) + 7) \div 8

\* I2OSP: x in exactly len octets.
RefBytes(len, x) == [i \in 1 .. len |-> (x \div Pow2(8 * (len - i))) % 256]

Zeros(len) == [i \in 1 .. len |-> 0]

RefXor(a, b) == [i \in 1 .. Len(a) |-> xor(a[i], b[i])]

\* The octet string with the top `bits` bits of its first octet cleared.
RefClearTop(db, bits) ==
    [i \in 1 .. Len(db) |-> IF i = 1 THEN db[i] % Pow2(8 - bits) ELSE db[i]]

\* EMSA-PSS-ENCODE of the digest value m with the given salt; `tweak`
\* names the one place where a forger departs from the encoding.
RefPssEncode(n, algo, m, salt, tweak) ==
    LET emLen  == RefEmLen(n)
        hLen   == digest_len(algo)
        mHash  == RefBytes(hLen, m % Pow2(8 * hLen))
        H0     == hash_bytes(algo, Zeros(8) \o mHash \o salt)
        H      == IF tweak = "hash" THEN [H0 EXCEPT ![1] = xor(@, 1)] ELSE H0
        dbLen  == emLen - hLen - 1
        PS0    == Zeros(dbLen - Len(salt) - 1)
        PS     == IF tweak = "padding" /\ PS0 # <<>> THEN [PS0 EXCEPT ![1] = 1] ELSE PS0
        DB     == PS \o <<IF tweak = "separator" THEN 2 ELSE 1>> \o salt
        masked == RefClearTop(RefXor(DB, mgf1(algo, H, dbLen)), 8 * emLen - RefEmBits(n))
    IN  masked \o H \o <<IF tweak = "trailer" THEN 204 ELSE 188>>

\* The conditions of RSASSA-PSS verification for the signature value s on
\* the digest value m under the key (n, e) and the parameters.
RefPssValid(n, e, params, m, s) ==
    LET emLen    == RefEmLen(n)
        EM       == RefBytes(emLen, PowMod(s, e, n))
        hLen     == digest_len(params.hash_algorithm)
        sLen     == BeValue(params.salt_length)
        padLen   == emLen - hLen - sLen - 2
        maskedDB == SubSeq(EM, 1, emLen - hLen - 1)
        H        == SubSeq(EM, emLen - hLen, emLen - 1)
        mHash    == RefBytes(hLen, m % Pow2(8 * hLen))
    IN  /\ BeValue(params.trailer_field) = 1
        /\ EM[emLen] = 188
        /\ padLen >= 0
        /\ params.mask_gen_algorithm.kind = "Mgf1"
        /\ LET DB   == RefClearTop(
                           RefXor(maskedDB,
                                  mgf1(params.mask_gen_algorithm.algo, H, Len(maskedDB))),
                           8 * emLen - RefEmBits(n))
               salt == SubSeq(DB, padLen + 2, Len(DB))
           IN  /\ DB = Zeros(padLen) \o <<1>> \o salt
               /\ H = hash_bytes(params.hash_algorithm, Zeros(8) \o mHash \o salt)

\* ------------------------------------------------------------------------
\* A caller of the RSA verifier: a signer (or forger) produces a signature
\* value for a digest, then one verification call is made on it.
\* ------------------------------------------------------------------------

\* Key pairs: modulus n = p * q of RsaBits bits, public exponent e and
\* private exponent d.
RsaKeyPairs == {<<33840397, 141, 165>>, <<58679941, 157, 169>>}

RsaKeys ==
    LET made == { RSAPublicKey_try_from(RsaBits, t[1], t[2]) : t \in RsaKeyPairs }
    IN  { r.val : r \in { m \in made : m.kind = "Ok" } }

PrivateExponent(key) ==
    (CHOOSE t \in RsaKeyPairs : t[1] = key.ring.modulus)[3]

DigestAlgorithms == {"Sha1", "Sha256"}

\* Digest values of signed messages.
Digests == {42, 4660}

\* What the signer uses: a digest algorithm and a salt.
SignConfigs == {<<"Sha1", <<>>>>, <<"Sha1", <<7>>>>, <<"Sha1", <<200>>>>, <<"Sha256", <<>>>>}

Tweaks == {"none", "trailer", "hash", "separator", "padding"}

SaltLengths == {<<0>>, <<1>>, <<1, 1>>}

TrailerFields == {<<1>>, <<2>>, <<1, 0>>}

PssParams ==
    { RsaPssParameters(a, g, sl, tf) :
        a \in DigestAlgorithms, g \in {Mgf1("Sha1"), Mgf1("Sha256"), UnknownMaskGen},
        sl \in SaltLengths, tf \in TrailerFields }

Signature(value, algo, m, salt) ==
    [kind |-> "Signature", value |-> value, algo |-> algo, message |-> m, salt |-> salt]

InitRsa ==
    /\ build \in Builds
    /\ ctx \in RsaKeys
    /\ acc = None
    /\ call = NoCall

\* The signer: s = EM^d mod n.
RsaSign ==
    /\ acc.kind = "None"
    /\ \E cfg \in SignConfigs, m \in Digests, tweak \in Tweaks :
           LET n  == ctx.ring.modulus
               EM == RefPssEncode(n, cfg[1], m, cfg[2], tweak)
           IN  acc' = Signature(PowMod(BeValue(EM), PrivateExponent(ctx), n),
                                cfg[1], m, cfg[2])
    /\ UNCHANGED <<build, ctx, call>>

RsaVerifyPss ==
    /\ FirstCall
    /\ acc.kind = "Signature"
    /\ \E params \in PssParams, m \in Digests :
           call' = [op        |-> "verify_pss",
                    params    |-> params,
                    message   |-> m,
                    signature |-> acc.value,
                    result    |-> RSAPublicKey_verify_pss(
                                      ctx, from(ctx.ring, m), from(ctx.ring, acc.value),
                                      params, build)]
    /\ UNCHANGED <<build, ctx, acc>>

\* The parameters the signer announces for its signature.
SignerParams(sig) ==
    RsaPssParameters(sig.algo, Mgf1(sig.algo), <<Len(sig.salt)>>, <<1>>)

RsaVerify ==
    /\ FirstCall
    /\ acc.kind = "Signature"
    /\ \E algorithm \in {RsaPss(SignerParams(acc)), UnknownAlgorithm} :
           call' = [op        |-> "verify",
                    algorithm |-> algorithm,
                    message   |-> acc.message,
                    signature |-> acc.value,
                    result    |-> RSAPublicKey_verify(
                                      ctx, from(ctx.ring, acc.message),
                                      from(ctx.ring, acc.value), algorithm, build)]
    /\ UNCHANGED <<build, ctx, acc>>

\* Octet strings a SignerInfo can carry for the signature value s: the
\* fixed-length encoding, with a zero octet in front, without its leading
\* zero octets, the encodings of s + n and of s + 2^RsaBits, and with a
\* non-zero octet in front.
SignatureOctets(key, s) ==
    LET fixed == to_be_bytes(RsaBits, s)
    IN  {fixed, <<0>> \o fixed, strip_zeros(fixed), <<1>> \o fixed,
         RefBytes(BYTES(RsaBits), s + key.ring.modulus),
         RefBytes(BYTES(RsaBits), s + Pow2(RsaBits))}

VerifySignature ==
    /\ FirstCall
    /\ acc.kind = "Signature"
    /\ \E signature \in SignatureOctets(ctx, acc.value) :
           call' = [op        |-> "verify_signature",
                    algorithm |-> RsaPss(SignerParams(acc)),
                    message   |-> acc.message,
                    signature |-> signature,
                    result    |-> EfSod_verify_signature(
                                      ctx, from(ctx.ring, acc.message), signature,
                                      RsaPss(SignerParams(acc)), build)]
    /\ UNCHANGED <<build, ctx, acc>>

NextRsa ==
    \/ RsaSign
    \/ RsaVerifyPss
    \/ RsaVerify
    \/ VerifySignature

SpecRsa == InitRsa /\ [][NextRsa]_vars

\* C2: verify_pss returns Ok exactly when the RSASSA-PSS conditions hold for
\* EM = signature^e mod n under the given parameters (trailer field 1 and
\* last octet 0xBC, DB = zero padding, 0x01, sLen salt octets, and
\* H = Hash(0^8 || mHash || salt)), and an error result otherwise.
VerifyPssIffConditions ==
    call.op = "verify_pss" =>
        call.result =
            IF RefPssValid(ctx.ring.modulus, ctx.public_exponent, call.params,
                           call.message, call.signature)
            THEN Ok(TRUE) ELSE Err

\* The signature octets denote an integer of at least n.
RefAtLeast(bytes, n) ==
    LET sig == strip_zeros(bytes)
    IN  \/ Len(sig) > 4
        \/ Len(sig) = 4 /\ sig[1] >= 128
        \/ BeValue(sig) >= n

\* C3: a signature whose octet length is not ceil(k / 8), or whose integer
\* value is at least n, is rejected with an error result.
SignatureLengthAndRange ==
    call.op = "verify_signature" =>
        LET n == ctx.ring.modulus
        IN  (Len(call.signature) # (uint_bit_len(n) + 7) \div 8
                 \/ RefAtLeast(call.signature, n))
            => call.result = Err

\* ------------------------------------------------------------------------
\* Ring arithmetic next to arithmetic in Z/pZ: `ctx` is the ring of an odd
\* prime, each step one computation on elements made by `from`.
\* ------------------------------------------------------------------------

\* The odd primes a Uint of the width holds.
OddPrimes == {p \in 3 .. (Pow2(BITS) - 1) : \A d \in 2 .. (p - 1) : p % d # 0}

PrimeRings == {ModRing_from_modulus(BITS, p).val : p \in OddPrimes}

Residues == 0 .. (ctx.modulus - 1)

InitArith ==
    /\ build = "release"
    /\ ctx \in PrimeRings
    /\ acc = None
    /\ call = NoCall

\* from(x).to_uint().
ArithFrom ==
    /\ FirstCall
    /\ \E x \in Residues : Computed("from", <<x>>, to_uint(ctx, from(ctx, x)))

\* (from(x) + from(y)).to_uint().
ArithAdd ==
    /\ FirstCall
    /\ \E x, y \in Residues :
           Computed("add", <<x, y>>,
                    to_uint(ctx, elem_add(ctx, from(ctx, x), from(ctx, y))))

\* (from(x) - from(y)).to_uint().
ArithSub ==
    /\ FirstCall
    /\ \E x, y \in Residues :
           Computed("sub", <<x, y>>,
                    to_uint(ctx, elem_sub(ctx, from(ctx, x), from(ctx, y))))

\* (from(x) * from(y)).to_uint().
ArithMul ==
    /\ FirstCall
    /\ \E x, y \in Residues :
           Computed("mul", <<x, y>>,
                    to_uint(ctx, elem_mul(ctx, from(ctx, x), from(ctx, y))))

\* a - a, a + 0 and a * 1 for a = from(x).
ArithIdentities ==
    /\ FirstCall
    /\ \E x \in Residues :
           Computed("identities", <<x>>,
                    [element  |-> from(ctx, x),
                     sub_self |-> elem_sub(ctx, from(ctx, x), from(ctx, x)),
                     add_zero |-> elem_add(ctx, from(ctx, x), zero(ctx)),
                     mul_one  |-> elem_mul(ctx, from(ctx, x), one(ctx))])

\* The inverse, when there is one, multiplied by the element.
inv_times(ring, a, inv) ==
    IF inv.kind = "None" THEN None ELSE Some(elem_mul(ring, inv.val, a))

\* from(x).inv(), and e * from(x) when it is Some(e).
ArithInv ==
    /\ FirstCall
    /\ \E x \in Residues :
           Computed("inv", <<x>>,
                    inv_times(ctx, from(ctx, x), elem_inv(ctx, from(ctx, x))))

\* from(x).as_montgomery().sqrt_mont(modulus, montgomery_r, mod_inv).
ArithSqrt ==
    /\ FirstCall
    /\ \E x \in Residues : Computed("sqrt", <<x>>, sqrt_mont(ctx, from(ctx, x)))

NextArith ==
    \/ ArithSqrt
    \/ ArithFrom
    \/ ArithAdd
    \/ ArithSub
    \/ ArithMul
    \/ ArithIdentities
    \/ ArithInv

SpecArith == InitArith /\ [][NextArith]_vars

\* C11: for every odd prime p and all x, y < p, from(x).to_uint() = x, the
\* sum, difference and product of from(x) and from(y) have the to_uint of
\* (x + y), (x - y) and (x * y) mod p, a - a = 0, a + 0 = a, a * 1 = a, and
\* from(x).inv() is None for x = 0 and otherwise Some(e) with
\* e * from(x) = one.
ArithAgreesWithZp ==
    /\ call.op = "from" => call.result = call.args[1]
    /\ call.op = "add" => call.result = (call.args[1] + call.args[2]) % ctx.modulus
    /\ call.op = "sub" =>
           call.result = (call.args[1] + ctx.modulus - call.args[2]) % ctx.modulus
    /\ call.op = "mul" => call.result = (call.args[1] * call.args[2]) % ctx.modulus
    /\ call.op = "identities" =>
           /\ call.result.sub_self = zero(ctx)
           /\ call.result.add_zero = call.result.element
           /\ call.result.mul_one = call.result.element
    /\ call.op = "inv" =>
           call.result = IF call.args[1] = 0 THEN None ELSE Some(one(ctx))

\* C11 witness: a sum whose operands, as integers and as Montgomery values,
\* add up to more than the Uint holds came out as (x + y) mod p.
ArithSumOverflowed ==
    /\ call.op = "add"
    /\ call.args[1] + call.args[2] >= Pow2(BITS)
    /\ from(ctx, call.args[1]) + from(ctx, call.args[2]) >= Pow2(BITS)
    /\ call.result = (call.args[1] + call.args[2]) % ctx.modulus

\* C12: RingRefExt::from(x) returns, for every Uint x of the ring's width
\* (x >= p included), the element whose to_uint() is x mod p.
FromReducesArgument ==
    call.op = "from" =>
        /\ call.result.kind = "Ok"
        /\ to_uint(ctx, call.result.val) = call.args[1] % ctx.modulus

\* ------------------------------------------------------------------------
\* The Montgomery parameters of a ring.  mod_inv is a u64; it is kept as
\* its eight bytes, least significant first, and the wrapping operations
\* of u64 work byte by byte.
\* ------------------------------------------------------------------------

U64Bytes == 8

\* U64::wrapping_from of a value below 2^31.
u64_from(x) ==
    [i \in 1 .. U64Bytes |-> IF i <= 4 THEN (x \div Pow2(8 * (i - 1))) % 256 ELSE 0]

\* Sum of a[i] * b[k + 1 - i] for i = 1 .. k: column k of the product.
RECURSIVE u64_column(_, _, _, _)
u64_column(a, b, k, i) ==
    IF i > k THEN 0 ELSE a[i] * b[k + 1 - i] + u64_column(a, b, k, i + 1)

RECURSIVE u64_mul_from(_, _, _, _)
u64_mul_from(a, b, k, carry) ==
    IF k > U64Bytes THEN <<>>
    ELSE <<(carry + u64_column(a, b, k, 1)) % 256>>
         \o u64_mul_from(a, b, k + 1, (carry + u64_column(a, b, k, 1)) \div 256)

\* u64::wrapping_mul.
wrapping_mul(a, b) == u64_mul_from(a, b, 1, 0)

RECURSIVE u64_add_from(_, _, _, _)
u64_add_from(a, b, k, carry) ==
    IF k > U64Bytes THEN <<>>
    ELSE <<(a[k] + b[k] + carry) % 256>>
         \o u64_add_from(a, b, k + 1, (a[k] + b[k] + carry) \div 256)

\* u64::wrapping_add.
wrapping_add(a, b) == u64_add_from(a, b, 1, 0)

\* u64::wrapping_neg: two's complement.
wrapping_neg(a) ==
    wrapping_add([i \in 1 .. U64Bytes |-> 255 - a[i]], u64_from(1))

\* u64::wrapping_sub.
wrapping_sub(a, b) == wrapping_add(a, wrapping_neg(b))

\* One Newton step of the inverse modulo 2^64: inv * (2 - n * inv).
inv_ring_step(n, inv) ==
    wrapping_mul(inv, wrapping_sub(u64_from(2), wrapping_mul(n, inv)))

\* Uint::inv_ring (ruint) on U64: the inverse modulo 2^64 of an odd n by
\* Newton steps from n itself (right on 3 bits, doubling each step), None
\* for an even n.
inv_ring(n) ==
    IF n[1] % 2 = 0 THEN None
    ELSE Some(inv_ring_step(n, inv_ring_step(n, inv_ring_step(n,
              inv_ring_step(n, inv_ring_step(n, n))))))

\* mod_inv of parameters_from_modulus:
\* U64::wrapping_from(modulus).inv_ring().expect(..).wrapping_neg().
mod_inv_negated(inv) ==
    IF inv.kind = "None" THEN Panic ELSE Ok(wrapping_neg(inv.val))

mod_inv(modulus) == mod_inv_negated(inv_ring(u64_from(modulus)))

\* The ring parameters_from_modulus returns, with the mod_inv it stores.
with_mod_inv(ring, inv) ==
    IF inv.kind = "Panic" \/ ring.kind = "Panic" THEN Panic
    ELSE Ok([ring |-> ring.val, mod_inv |-> inv.val])

\* Widest Uint whose every value is taken as a modulus.
MaxWidth == 7

\* Wider Uints, of 1 to 4 limbs, on both sides of BITS = 32 and of each
\* limb boundary met (U64, U160 and U256 are the widths of the parameter
\* tests), and the largest modulus taken in them.
WideWidths == {32, 33, 64, 65, 128, 160, 256}

MaxWideModulus == 127

ParamModuli(bits) ==
    IF bits <= MaxWidth THEN UintValues(bits) ELSE 0 .. MaxWideModulus

InitParams ==
    /\ build = "release"
    /\ ctx \in {[bits |-> w] : w \in (BITS .. MaxWidth) \cup WideWidths}
    /\ acc \in ParamModuli(ctx.bits)
    /\ call = NoCall

\* ModRing::from_modulus(acc).
ParamFromModulus ==
    /\ FirstCall
    /\ Computed("from_modulus", <<acc>>,
                with_mod_inv(ModRing_from_modulus(ctx.bits, acc), mod_inv(acc)))

NextParams == ParamFromModulus

SpecParams == InitParams /\ [][NextParams]_vars

\* The limbs of the claim: the least count of 64-bit limbs holding the
\* width.
RefLimbs(bits) == CHOOSE l \in 1 .. bits : 64 * (l - 1) < bits /\ bits <= 64 * l

\* 2^(64 * limbs) mod p.
RefRadix(bits, p) == PowMod(2, 64 * RefLimbs(bits), p)

\* C13: for every odd modulus p > 1 held in a Uint of LIMBS limbs,
\* from_modulus(p) stores montgomery_r = 2^(64 * LIMBS) mod p,
\* montgomery_r2 = r^2 mod p, montgomery_r3 = r^3 mod p and a mod_inv with
\* p * mod_inv = -1 (mod 2^64).
ParametersAreMontgomery ==
    (call.op = "from_modulus" /\ acc % 2 = 1 /\ acc > 1) =>
        /\ call.result.kind = "Ok"
        /\ call.result.val.ring.modulus = acc
        /\ call.result.val.ring.montgomery_r = RefRadix(ctx.bits, acc)
        /\ call.result.val.ring.montgomery_r2
               = (RefRadix(ctx.bits, acc) * RefRadix(ctx.bits, acc)) % acc
        /\ call.result.val.ring.montgomery_r3
               = (((RefRadix(ctx.bits, acc) * RefRadix(ctx.bits, acc)) % acc)
                      * RefRadix(ctx.bits, acc)) % acc
        /\ wrapping_mul(u64_from(acc), call.result.val.mod_inv)
               = [i \in 1 .. U64Bytes |-> 255]

\* C13 witness: in a Uint of more than one limb, a ring of an odd modulus
\* was built whose R, R^2 and R^3 are three different residues and whose R
\* is not the radix of one limb.
ParametersBuilt ==
    /\ call.op = "from_modulus"
    /\ ctx.bits > 64
    /\ acc % 2 = 1
    /\ call.result.kind = "Ok"
    /\ call.result.val.ring.montgomery_r > 1
    /\ call.result.val.ring.montgomery_r # PowMod(2, 64, acc)
    /\ call.result.val.ring.montgomery_r2 # call.result.val.ring.montgomery_r
    /\ call.result.val.ring.montgomery_r3 # call.result.val.ring.montgomery_r2
    /\ call.result.val.ring.montgomery_r3 # call.result.val.ring.montgomery_r
    /\ call.result.val.mod_inv[U64Bytes] # 0

\* C14: for every odd prime p = 3 (mod 4) or p = 5 (mod 8) and every a < p
\* in Montgomery form, sqrt_mont returns Some(r) with r * r = a when a is a
\* quadratic residue and None when it is not.
SqrtIsSquareRoot ==
    (call.op = "sqrt" /\ (ctx.modulus % 4 = 3 \/ ctx.modulus % 8 = 5)) =>
        /\ call.result.kind = "Ok"
        /\ IF \E r \in Residues : (r * r) % ctx.modulus = call.args[1]
           THEN /\ call.result.val.kind = "Some"
                /\ mont_mul(ctx, call.result.val.val, call.result.val.val)
                       = from(ctx, call.args[1])
           ELSE call.result.val.kind = "None"

\* ------------------------------------------------------------------------
\* The two constructors of a Mod-P group: crypto::groups::modp_group and
\* crypto::modp_group.
\* ------------------------------------------------------------------------

\* crypto::modp_group::ModPGroup::new from the two rings on: no check of
\* the generator's order.
dh_modp_with_fields(base_field, scalar_field, gen) ==
    IF base_field.kind = "Panic" \/ scalar_field.kind = "Panic" THEN Panic
    ELSE Ok([base_field      |-> base_field.val,
             scalar_field    |-> scalar_field.val,
             generator_monty |-> from(base_field.val, gen)])

\* crypto::modp_group::ModPGroup::new.
dh_ModPGroup_new(bits, modulus, gen, order) ==
    IF ~(gen < modulus) THEN Err
    ELSE dh_modp_with_fields(ModRing_from_modulus(bits, modulus),
                             ModRing_from_modulus(bits, order), gen)

\* `acc` is the triple (modulus, generator, order) handed to new.
InitModP ==
    /\ build = "release"
    /\ ctx = [bits |-> BITS]
    /\ acc \in Uints \X Uints \X Uints
    /\ call = NoCall

\* crypto::groups::modp_group::ModPGroup::new(p, g, q).
ModPNew ==
    /\ FirstCall
    /\ Computed("groups::modp_group::new", acc,
                ModPGroup_new(ctx.bits, acc[1], acc[2], acc[3]))

\* crypto::modp_group::ModPGroup::new(p, g, q).
ModPNewDh ==
    /\ FirstCall
    /\ Computed("modp_group::new", acc,
                dh_ModPGroup_new(ctx.bits, acc[1], acc[2], acc[3]))

NextModP ==
    \/ ModPNew
    \/ ModPNewDh

SpecModP == InitModP /\ [][NextModP]_vars

\* C15: ModPGroup::new(p, g, q) returns Ok only if 1 < g < p and
\* g^q = 1 (mod p).
ModPNewOkOnlyIfValid ==
    (call.op \in {"groups::modp_group::new", "modp_group::new"}
         /\ call.result.kind = "Ok") =>
        /\ 1 < call.args[2]
        /\ call.args[2] < call.args[1]
        /\ PowMod(call.args[2], call.args[3], call.args[1]) = 1 % call.args[1]

\* ------------------------------------------------------------------------
\* BsiTr031111Codec (encode side) and the codec's round trips.  An encoder
\* returns the octets it puts into the buffer, or aborts.
\* ------------------------------------------------------------------------

\* Codec<Uint>::encode from the second assert on: bytes[..trim] must be all
\* zero, bytes[trim..] is written after the padding.
uint_encode_trimmed(bytes, size, trim) ==
    IF \E i \in 1 .. trim : bytes[i] # 0 THEN Panic
    ELSE Ok([i \in 1 .. (IF size > Len(bytes) THEN size - Len(bytes) ELSE 0) |-> 0]
            \o SubSeq(bytes, trim + 1, Len(bytes)))

\* Codec<Uint>::encode with uint_bytes = size.
uint_encode(bits, value, size) ==
    IF ~(byte_len(value) <= size) THEN Panic
    ELSE uint_encode_trimmed(to_be_bytes(bits, value), size,
                             IF BYTES(bits) > size THEN BYTES(bits) - size ELSE 0)

\* Codec<ModRingElement>::encode.
element_encode(ring, value) ==
    uint_encode(ring.bits, to_uint(ring, value), byte_len(ring.modulus))

\* The octets of a tag followed by encoded coordinates.
tagged(tag, encoded) ==
    IF encoded.kind = "Panic" THEN Panic ELSE Ok(<<tag>> \o encoded.val)

\* Two encodings one after the other in the same buffer.
appended(first, second) ==
    IF first.kind = "Panic" \/ second.kind = "Panic" THEN Panic
    ELSE Ok(first.val \o second.val)

\* Codec<EllipticCurvePoint>::encode with the codec's compressed_points.
point_encode(curve, compressed_points, value) ==
    IF value.kind = "Infinity" THEN Ok(<<0>>)
    ELSE IF compressed_points
    THEN tagged(IF bit(to_uint(curve.base_field, value.y), 0) = 1 THEN 2 ELSE 3,
                element_encode(curve.base_field, value.x))
    ELSE tagged(4, appended(element_encode(curve.base_field, value.x),
                            element_encode(curve.base_field, value.y)))

\* decode applied to what encode wrote.
element_decode_encoded(ring, encoded) ==
    IF encoded.kind = "Panic" THEN Panic ELSE element_decode(ring, encoded.val)

point_decode_encoded(curve, encoded) ==
    IF encoded.kind = "Panic" THEN Panic ELSE point_decode(curve, encoded.val)

\* Rings whose elements are encoded, as (width, modulus): moduli of one
\* octet in a Uint of one and of two octets, and a modulus of two octets.
CodecRingParams == { <<5, 13>>, <<5, 31>>, <<9, 13>>, <<9, 263>> }

CodecRings == {ModRing_from_modulus(t[1], t[2]).val : t \in CodecRingParams}

\* The parent a value is encoded and decoded against.
CodecParents ==
    {[parent |-> "ring", ring |-> r] : r \in CodecRings}
    \cup {[parent |-> "curve", curve |-> c] : c \in Curves}

InitCodec ==
    /\ build = "release"
    /\ ctx \in CodecParents
    /\ acc = None
    /\ call = NoCall

\* A field element encoded, and the encoding decoded against its ring.
CodecElement ==
    /\ FirstCall
    /\ ctx.parent = "ring"
    /\ \E v \in Elements(ctx.ring) :
           Computed("element", <<v>>,
                    [encoded |-> element_encode(ctx.ring, v),
                     decoded |-> element_decode_encoded(
                                     ctx.ring, element_encode(ctx.ring, v))])

\* A point encoded, compressed or not, and the encoding decoded against
\* its curve.
CodecPoint ==
    /\ FirstCall
    /\ ctx.parent = "curve"
    /\ \E P \in AffineTable[ctx.curve] \cup {infinity(ctx.curve)}, compressed \in BOOLEAN :
           Computed("point", <<P, compressed>>,
                    [encoded |-> point_encode(ctx.curve, compressed, P),
                     decoded |-> point_decode_encoded(
                                     ctx.curve, point_encode(ctx.curve, compressed, P))])

\* encode applied to what decode returned: a point in the form of the
\* buffer's tag.
point_encode_decoded(curve, compressed_points, decoded) ==
    IF decoded.kind # "Ok" THEN decoded
    ELSE point_encode(curve, compressed_points, decoded.val)

element_encode_decoded(ring, decoded) ==
    IF decoded.kind # "Ok" THEN decoded
    ELSE element_encode(ring, decoded.val.value)

\* Buffers handed to the field-element decoder: no octet, one octet, two.
ElementOctets == (0 .. 40) \cup {255}

ElementBuffers ==
    {<<>>} \cup {<<x>> : x \in ElementOctets}
    \cup {<<h, l>> : h \in 0 .. 2, l \in ElementOctets}

\* A buffer decoded as a point of the curve, and the point encoded again
\* (compressed when the buffer's tag is 2 or 3).
CodecPointDecode ==
    /\ FirstCall
    /\ ctx.parent = "curve"
    /\ \E buffer \in DecodeBuffers \ {<<>>} :
           Computed("decode_point", <<buffer>>,
                    [decoded   |-> point_decode(ctx.curve, buffer),
                     reencoded |-> point_encode_decoded(
                                       ctx.curve, Head(buffer) \in {2, 3},
                                       point_decode(ctx.curve, buffer))])

\* A buffer decoded as an element of the ring, and the element encoded
\* again.
CodecElementDecode ==
    /\ FirstCall
    /\ ctx.parent = "ring"
    /\ \E buffer \in ElementBuffers :
           Computed("decode_element", <<buffer>>,
                    [decoded   |-> element_decode(ctx.ring, buffer),
                     reencoded |-> element_encode_decoded(
                                       ctx.ring, element_decode(ctx.ring, buffer))])

NextCodec ==
    \/ CodecPointDecode
    \/ CodecElementDecode
    \/ CodecElement
    \/ CodecPoint

SpecCodec == InitCodec /\ [][NextCodec]_vars

\* C16: decode(encode(v)) = v for every field element v of a ring and every
\* point P of a curve (Infinity, affine compressed and uncompressed),
\* decoding against the same ring or curve.
CodecRoundTrip ==
    /\ call.op = "element" =>
           call.result.decoded = Ok([value |-> call.args[1], rest |-> <<>>])
    /\ call.op = "point" => call.result.decoded = Ok(call.args[1])

\* The value v in n octets, big-endian, left-padded with zeros.
RefOctets(v, n) == [i \in 1 .. n |-> (v \div Pow2(8 * (n - i))) % 256]

\* TR-03111 3.2: the octets of a point, its coordinates as plain residues
\* in the byte length of the modulus.
RefCoordinate(curve, c) ==
    RefOctets(to_uint(curve.base_field, c), byte_len(curve.base_field.modulus))

RefPointOctets(curve, P, compressed) ==
    IF P.kind = "Infinity" THEN <<0>>
    ELSE IF compressed
    THEN <<IF to_uint(curve.base_field, P.y) % 2 = 0 THEN 2 ELSE 3>>
         \o RefCoordinate(curve, P.x)
    ELSE <<4>> \o RefCoordinate(curve, P.x) \o RefCoordinate(curve, P.y)

\* C17: the point encoder emits 00 for Infinity, 04 || X || Y uncompressed,
\* and compressed 02 || X when y is even, 03 || X when y is odd, coordinates
\* left-padded to the byte length of the modulus; the decoder of 02 || X
\* returns the point of even y and of 03 || X the point of odd y.
PointEncodingFormat ==
    /\ call.op = "point" =>
           call.result.encoded = Ok(RefPointOctets(ctx.curve, call.args[1], call.args[2]))
    /\ (call.op = "decode_point" /\ Head(call.args[1]) \in {2, 3}
            /\ call.result.decoded.kind = "Ok") =>
           to_uint(ctx.curve.base_field, call.result.decoded.val.y) % 2
               = Head(call.args[1]) - 2

\* C18: every byte string the field-element decoder accepts, and every
\* accepted point encoding re-encoded in the same form, re-encodes to the
\* same bytes; a coordinate >= p is not accepted.
DecodedReencodesSame ==
    /\ (call.op = "decode_element" /\ call.result.decoded.kind = "Ok") =>
           /\ call.result.reencoded.kind = "Ok"
           /\ call.result.reencoded.val \o call.result.decoded.val.rest = call.args[1]
           /\ BeValue(call.result.reencoded.val) < ctx.ring.modulus
           /\ BeValue(SubSeq(call.args[1], 1, byte_len(ctx.ring.modulus)))
                  < ctx.ring.modulus
    /\ (call.op = "decode_point" /\ call.result.decoded.kind = "Ok") =>
           /\ call.result.reencoded.kind = "Ok"
           /\ call.result.reencoded.val
                  = SubSeq(call.args[1], 1, Len(call.result.reencoded.val))

\* C19: decoding an EC point returns a point or an error for every buffer
\* and curve and never aborts (empty buffer, truncated coordinates, unknown
\* leading byte, off-curve (x, y), x with no square root).
DecodeNeverAborts ==
    call.op = "decode" => call.result.kind \in {"Ok", "Err"}

\* ------------------------------------------------------------------------
\* Icao9303Codec: BER lengths.  A BerSize is a usize of eight octets; the
\* sizes modelled stay below 2^31.
\* ------------------------------------------------------------------------

\* usize::BITS / 8.
UsizeBytes == 8

\* usize::to_be_bytes.
usize_to_be_bytes(x) ==
    [i \in 1 .. UsizeBytes |->
        IF i <= UsizeBytes - 4 THEN 0 ELSE (x \div Pow2(8 * (UsizeBytes - i))) % 256]

\* be.iter().position(|&b| b != 0).unwrap_or(0).
ber_trim(be) ==
    IF \A i \in 1 .. Len(be) : be[i] = 0 THEN 0
    ELSE (CHOOSE i \in 1 .. Len(be) :
              be[i] # 0 /\ \A j \in 1 .. (i - 1) : be[j] = 0) - 1

\* The long form: 0x80 | trimmed.len(), then the trimmed octets.
ber_long_form(trimmed) == <<128 + Len(trimmed)>> \o trimmed

\* Codec<BerSize>::encode keeping every octet of to_be_bytes.
ber_encode_untrimmed(value) ==
    IF value < 128 THEN <<value>>
    ELSE ber_long_form(usize_to_be_bytes(value))

\* Codec<BerSize>::encode.
ber_encode(value) ==
    IF value < 128 THEN <<value>>
    ELSE ber_long_form(SubSeq(usize_to_be_bytes(value),
                              ber_trim(usize_to_be_bytes(value)) + 1, UsizeBytes))

\* lenient: an error under Strict, nothing otherwise.
lenient(leniency) == IF leniency = "Strict" THEN Err ELSE Ok(<<>>)

\* Codec<BerSize>::decode, long form, once `len` octets are known to remain.
ber_decode_long(codec, octets, rest) ==
    IF (octets[1] = 0 \/ (Len(octets) = 1 /\ octets[1] < 128))
           /\ lenient(codec.non_minimal_length).kind = "Err"
    THEN Err
    ELSE Ok([value |-> BeValue(octets), rest |-> rest])

\* Codec<BerSize>::decode, long form, from the length octet on.
ber_decode_len(codec, len, buffer) ==
    IF len = 0 \/ len = 127 \/ ~(len <= UsizeBytes) \/ ~(Len(buffer) >= len) THEN Err
    ELSE ber_decode_long(codec, SubSeq(buffer, 1, len),
                         SubSeq(buffer, len + 1, Len(buffer)))

\* Codec<BerSize>::decode: the size and the rest of the buffer.
ber_decode(codec, buffer) ==
    IF ~(Len(buffer) >= 1) THEN Err
    ELSE IF Head(buffer) < 128 THEN Ok([value |-> Head(buffer), rest |-> Tail(buffer)])
    ELSE ber_decode_len(codec, Head(buffer) % 128, Tail(buffer))

Leniencies == {"Allow", "Warn", "Strict"}

\* Largest of the consecutive sizes encoded.
MaxBerSize == 300

\* Sizes at the edges of the two-, three- and four-octet forms.
BerLargeSizes == {65535, 65536, 16777215, 16777216, 2147483647}

BerSizes == (0 .. MaxBerSize) \cup BerLargeSizes

\* `ctx` is the codec, `acc` the size handed to it.
InitBer ==
    /\ build = "release"
    /\ ctx \in {[non_minimal_length |-> l] : l \in Leniencies}
    /\ acc \in BerSizes
    /\ call = NoCall

\* encode(BerSize(acc)), and decode of the octets written.
BerEncodeDecode ==
    /\ FirstCall
    /\ Computed("ber_size", <<acc>>,
                [encoded |-> ber_encode(acc),
                 decoded |-> ber_decode(ctx, ber_encode(acc))])

\* Sizes whose encodings, minimal and padded, are handed to the decoder.
BerValues == {0, 5, 127, 128, 255, 256, 65535}

\* Most zero octets put in front of a size's octets.
MaxBerPad == 9

\* The long form of v with k zero octets in front of its minimal octets.
BerPadded(v, k) ==
    <<128 + k + byte_len(v)>> \o [i \in 1 .. k |-> 0]
        \o [i \in 1 .. byte_len(v) |-> (v \div Pow2(8 * (byte_len(v) - i))) % 256]

BerLongForms == {BerPadded(v, k) : v \in BerValues, k \in 0 .. MaxBerPad}

\* Buffers handed to the decoder: empty, short forms, the reserved first
\* octet, long forms whole, cut short by one octet and followed by one more.
BerBuffers ==
    {<<>>, <<255, 1>>} \cup {<<v>> : v \in {0, 5, 127}}
    \cup BerLongForms
    \cup {SubSeq(b, 1, Len(b) - 1) : b \in BerLongForms}
    \cup {b \o <<7>> : b \in BerLongForms}

\* decode of a buffer.
BerDecode ==
    /\ FirstCall
    /\ \E buffer \in BerBuffers :
           Computed("ber_decode", <<buffer>>, ber_decode(ctx, buffer))

NextBer ==
    \/ BerDecode
    \/ BerEncodeDecode

SpecBer == InitBer /\ [][NextBer]_vars

\* C20: a BER length L is encoded as the single byte L when L < 128 and
\* otherwise as 0x80|n followed by the n bytes of the minimal big-endian
\* representation of L, and decode(encode(L)) = L for every L.
BerLengthEncoding ==
    call.op = "ber_size" =>
        /\ call.result.encoded
               = IF acc < 128 THEN <<acc>>
                 ELSE <<128 + byte_len(acc)>> \o RefOctets(acc, byte_len(acc))
        /\ call.result.decoded = Ok([value |-> acc, rest |-> <<>>])

\* The worked examples of the length encoding.
BerExamples ==
    /\ ber_encode(0) = <<0>>
    /\ ber_encode(127) = <<127>>
    /\ ber_encode(128) = <<129, 128>>
    /\ ber_encode(255) = <<129, 255>>
    /\ ber_encode(256) = <<130, 1, 0>>
    /\ ber_encode(65535) = <<130, 255, 255>>

\* C20 witness: the size 256 was written as 82 01 00 and read back, and
\* the encoder gives the worked examples.
BerLongFormRoundTrip ==
    /\ call.op = "ber_size"
    /\ acc = 256
    /\ call.result.encoded = <<130, 1, 0>>
    /\ call.result.decoded.kind = "Ok"
    /\ call.result.decoded.val.value = 256
    /\ BerExamples

\* X.690 8.1.3: the minimal octets of the length v.
RefBerOctets(v) ==
    IF v < 128 THEN <<v>>
    ELSE <<128 + byte_len(v)>> \o RefOctets(v, byte_len(v))

\* The buffer is one whole long-form length: 0x80|n, n >= 1, and n octets.
BerWholeLongForm(b) ==
    /\ Len(b) >= 2
    /\ b[1] > 128
    /\ b[1] < 255
    /\ Len(b) = 1 + (b[1] - 128)

\* C21: every non-minimal length encoding (long form with a leading zero
\* octet, or long form of a value below 128) fails to decode under
\* non_minimal_length = Strict and decodes to the encoded value under Warn
\* and Allow; every minimal encoding is accepted under all three policies;
\* under Strict the accepted byte strings are exactly the outputs of encode.
NonMinimalByPolicy ==
    call.op = "ber_decode" =>
        /\ (BerWholeLongForm(call.args[1])
                /\ call.args[1] # RefBerOctets(BeValue(Tail(call.args[1])))) =>
               IF ctx.non_minimal_length = "Strict"
               THEN call.result.kind = "Err"
               ELSE call.result
                        = Ok([value |-> BeValue(Tail(call.args[1])), rest |-> <<>>])
        /\ (\E v \in BerValues : call.args[1] = RefBerOctets(v)) =>
               call.result.kind = "Ok"
        /\ (ctx.non_minimal_length = "Strict" /\ call.result.kind = "Ok") =>
               call.args[1]
                   = ber_encode(call.result.val.value) \o call.result.val.rest

\* ------------------------------------------------------------------------
\* Icao9303Codec: unsigned integers (9.4.1).
\* ------------------------------------------------------------------------

\* Codec<Uint>::encode: to_be_bytes_trimmed_vec, the octets without the
\* leading zero octets (none at all for 0).
icao_uint_encode(bits, value) == strip_zeros(to_be_bytes(bits, value))

\* Codec<Uint>::decode from `trim` on: the leniency on leading zeros, then
\* try_from_be_slice on bytes[trim..].
icao_uint_decode_trimmed(codec, bits, bytes, trim) ==
    IF trim > 0 /\ lenient(codec.leading_zeros).kind = "Err" THEN Err
    ELSE ok_or_else(try_from_be_slice(bits, SubSeq(bytes, trim + 1, Len(bytes))))

\* Codec<Uint>::decode: the whole buffer is the integer.
icao_uint_decode(codec, bits, buffer) ==
    icao_uint_decode_trimmed(codec, bits, buffer, ber_trim(buffer))

\* encode applied to what decode returned.
icao_uint_encode_decoded(bits, decoded) ==
    IF decoded.kind # "Ok" THEN decoded ELSE Ok(icao_uint_encode(bits, decoded.val))

\* Widths of the Uints encoded: one octet and two.
IcaoUintWidths == {5, 9}

\* Octets of the buffers decoded, and their greatest length.
IcaoOctets == {0, 1, 31, 32, 255}

MaxIcaoLen == 3

RECURSIVE OctetStrings(_, _)
OctetStrings(octets, len) ==
    IF len = 0 THEN {<<>>}
    ELSE OctetStrings(octets, len - 1)
         \cup {<<o>> \o s : o \in octets, s \in OctetStrings(octets, len - 1)}

\* `ctx` is the codec with the width of the Uint type.
InitIcaoUint ==
    /\ build = "release"
    /\ ctx \in {[leading_zeros |-> l, bits |-> w] : l \in Leniencies, w \in IcaoUintWidths}
    /\ acc = None
    /\ call = NoCall

\* encode(value).
IcaoUintEncode ==
    /\ FirstCall
    /\ \E value \in UintValues(ctx.bits) :
           Computed("uint_encode", <<value>>, icao_uint_encode(ctx.bits, value))

\* decode(buffer), and encode of the value decoded.
IcaoUintDecode ==
    /\ FirstCall
    /\ \E buffer \in OctetStrings(IcaoOctets, MaxIcaoLen) :
           Computed("uint_decode", <<buffer>>,
                    [decoded   |-> icao_uint_decode(ctx, ctx.bits, buffer),
                     reencoded |-> icao_uint_encode_decoded(
                                       ctx.bits, icao_uint_decode(ctx, ctx.bits, buffer))])

NextIcaoUint ==
    \/ IcaoUintEncode
    \/ IcaoUintDecode

SpecIcaoUint == InitIcaoUint /\ [][NextIcaoUint]_vars

\* C22: the integer encoder emits the minimal big-endian octets (no leading
\* 00 octet); under leading_zeros = Strict the decoder rejects every string
\* whose first octet is 00, so that every string b accepted under Strict
\* has encode(decode(b)) = b; under Warn or Allow such strings decode to
\* the value with the leading zeros ignored.
IntegerLeadingZeros ==
    /\ call.op = "uint_encode" =>
           /\ BeValue(call.result) = call.args[1]
           /\ call.result = <<>> \/ call.result[1] # 0
    /\ (call.op = "uint_decode" /\ call.args[1] # <<>> /\ call.args[1][1] = 0) =>
           IF ctx.leading_zeros = "Strict"
           THEN call.result.decoded.kind = "Err"
           ELSE BeValue(call.args[1]) < Pow2(ctx.bits) =>
                    call.result.decoded = Ok(BeValue(call.args[1]))
    /\ (call.op = "uint_decode" /\ ctx.leading_zeros = "Strict"
            /\ call.result.decoded.kind = "Ok") =>
           call.result.reencoded = Ok(call.args[1])

\* ------------------------------------------------------------------------
\* Icao9303Codec: public keys as sequences of tag-length-value elements,
\* read by the loop of ber_decoder!.  A field is its tag and the width of
\* its Uint type, 0 for the object identifier.
\* ------------------------------------------------------------------------

\* The arcs after the first octet, read from octet i on, `start` being the
\* first octet of the arc in progress: every arc is base 128 and ends
\* within the string, and octet 5 of an arc (arc_bytes > 4) has none of
\* its four high bits set, so it ends the arc.  The octets before it are
\* not looked at: an arc of 5 octets whose value exceeds 32 bits wraps.
RECURSIVE oid_arcs(_, _, _)
oid_arcs(bytes, i, start) ==
    IF i > Len(bytes) THEN start = i
    ELSE IF i - start + 1 > 4 /\ bytes[i] >= 16 THEN FALSE
    ELSE IF bytes[i] >= 128 THEN oid_arcs(bytes, i + 1, start)
    ELSE oid_arcs(bytes, i + 1, i + 1)

\* ObjectIdentifier::from_bytes (const_oid), as Codec<ObjectIdentifier>::
\* decode calls it on all remaining octets: 3 to 39 octets, a first octet
\* whose first arc is at most 2, and well-formed arcs after it.
oid_from_bytes(bytes) ==
    IF Len(bytes) < 3 \/ Len(bytes) > 39 THEN Err
    ELSE IF bytes[1] >= 120 THEN Err
    ELSE IF ~oid_arcs(bytes, 2, 2) THEN Err
    ELSE Ok(bytes)

\* $codec.decode(&mut bytes, ()) at the field's type.
field_decode(codec, width, bytes) ==
    IF width = 0 THEN oid_from_bytes(bytes) ELSE icao_uint_decode(codec, width, bytes)

\* The `$name.ok_or_else(.. missing)?` of every field after the loop.
ber_decoder_finish(values) ==
    IF \E n \in 1 .. Len(values) : values[n].kind = "None" THEN Err
    ELSE Ok([n \in 1 .. Len(values) |-> values[n].val])

RECURSIVE ber_decoder_loop(_, _, _, _, _, _)

\* The arm of field n once its value is decoded: the field is set and the
\* loop goes on after the value.
ber_decoder_store(codec, tags, widths, n, value, rest, count, values) ==
    IF value.kind = "Err" THEN Err
    ELSE ber_decoder_loop(codec, tags, widths, rest, count + 1,
                          [values EXCEPT ![n] = Some(value.val)])

\* The arm of field n without the check of its position.
ber_decoder_field_unordered(codec, tags, widths, n, len, rest, count, values) ==
    IF values[n].kind # "None" THEN Err
    ELSE ber_decoder_store(codec, tags, widths, n,
                           field_decode(codec, widths[n], SubSeq(rest, 1, len)),
                           SubSeq(rest, len + 1, Len(rest)), count, values)

\* The arm of field n (position n - 1 in the macro's numbering).
ber_decoder_field(codec, tags, widths, n, len, rest, count, values) ==
    IF count # n - 1 /\ lenient(codec.read_order).kind = "Err" THEN Err
    ELSE IF values[n].kind # "None" THEN Err
    ELSE ber_decoder_store(codec, tags, widths, n,
                           field_decode(codec, widths[n], SubSeq(rest, 1, len)),
                           SubSeq(rest, len + 1, Len(rest)), count, values)

\* One turn of the loop from the length read on.  The arm of an unknown
\* tag leaves the buffer where it is, at the first octet of the value.
ber_decoder_element(codec, tags, widths, tag, len, count, values) ==
    IF len.kind = "Err" THEN Err
    ELSE IF ~(Len(len.val.rest) >= len.val.value) THEN Err
    ELSE IF \E n \in 1 .. Len(tags) : tags[n] = tag
    THEN ber_decoder_field(codec, tags, widths,
                           CHOOSE n \in 1 .. Len(tags) : tags[n] = tag,
                           len.val.value, len.val.rest, count, values)
    ELSE IF lenient(codec.unknown_tag).kind = "Err" THEN Err
    ELSE ber_decoder_loop(codec, tags, widths, len.val.rest, count + 1, values)

\* while buffer.has_remaining() { .. }, then the fields.
ber_decoder_loop(codec, tags, widths, buffer, count, values) ==
    IF buffer = <<>> THEN ber_decoder_finish(values)
    ELSE ber_decoder_element(codec, tags, widths, Head(buffer),
                             ber_decode(codec, Tail(buffer)), count, values)

\* ber_decoder!.
ber_decoder(codec, tags, widths, buffer) ==
    ber_decoder_loop(codec, tags, widths, buffer, 0, [n \in 1 .. Len(tags) |-> None])

\* Codec<PublicKeyRSA>::decode: oid, modulus, public_exponent.
rsa_key_decode(codec, bits, buffer) ==
    ber_decoder(codec, <<6, 129, 130>>, <<0, bits, bits>>, buffer)

\* Codec<PublicKeyDH>::decode: oid, modulus, order, generator, public_key.
dh_key_decode(codec, b0, b1, buffer) ==
    ber_decoder(codec, <<6, 129, 130, 131, 132>>, <<0, b0, b1, b0, b0>>, buffer)

\* One element as ber_encoder! writes it: tag, length, value.
Tlv(tag, octets) == <<tag>> \o ber_encode(Len(octets)) \o octets

RECURSIVE Concat(_)
Concat(seqs) == IF seqs = <<>> THEN <<>> ELSE Head(seqs) \o Concat(Tail(seqs))

\* The keys decoded: the fields' octets, in the order of the encoding.
KeyOid == <<4, 0, 127>>

RsaKeyFields == <<KeyOid, <<21>>, <<3>>>>

DhKeyFields == <<KeyOid, <<23>>, <<11>>, <<2>>, <<8>>>>

\* The tag of no field, and the values it comes with (of length 0, 1, 2).
UnknownTag == 144

UnknownValues == <<<<>>, <<1>>, <<1, 0>>>>

\* Element n of a buffer: field n of the key, or past the fields the
\* element of the unknown tag with its value number n - Len(fields).
KeyElement(tags, fields, n) ==
    IF n <= Len(fields) THEN Tlv(tags[n], fields[n])
    ELSE Tlv(UnknownTag, UnknownValues[n - Len(fields)])

KeyBuffer(tags, fields, elements) ==
    Concat([i \in 1 .. Len(elements) |-> KeyElement(tags, fields, elements[i])])

\* Sequences of at most len elements.
RECURSIVE ElementSeqs(_, _)
ElementSeqs(ids, len) ==
    IF len = 0 THEN {<<>>}
    ELSE ElementSeqs(ids, len - 1)
         \cup {s \o <<e>> : s \in ElementSeqs(ids, len - 1), e \in ids}

\* Most elements of an RSA key buffer.
MaxRsaElements == 4

RsaElementSeqs == ElementSeqs(1 .. 6, MaxRsaElements)

Perms(n) == {f \in [1 .. n -> 1 .. n] : \A i, j \in 1 .. n : i # j => f[i] # f[j]}

Inserted(s, j, e) == SubSeq(s, 1, j) \o <<e>> \o SubSeq(s, j + 1, Len(s))

\* DH key buffers: the five fields in every order, then with one field
\* left out, one field a second time, or one unknown element put in.
DhElementSeqs ==
    Perms(5)
    \cup {SubSeq(p, 1, j - 1) \o SubSeq(p, j + 1, 5) : p \in Perms(5), j \in 1 .. 5}
    \cup {p \o <<p[j]>> : p \in Perms(5), j \in 1 .. 5}
    \cup {Inserted(p, j, e) : p \in Perms(5), j \in {0, 2, 5}, e \in {6, 7}}

\* `ctx` is the codec; the widths of the Uints are those of the rings.
InitKey ==
    /\ build = "release"
    /\ ctx \in {[read_order |-> r, unknown_tag |-> u,
                 non_minimal_length |-> "Warn", leading_zeros |-> "Warn"] :
                    r \in Leniencies, u \in Leniencies}
    /\ acc = None
    /\ call = NoCall

\* Codec<PublicKeyRSA>::decode of a buffer of elements.
KeyDecodeRsa ==
    /\ FirstCall
    /\ \E elements \in RsaElementSeqs :
           Computed("rsa_decode", elements,
                    rsa_key_decode(ctx, BITS,
                                   KeyBuffer(<<6, 129, 130>>, RsaKeyFields, elements)))

\* Codec<PublicKeyDH>::decode of a buffer of elements.
KeyDecodeDh ==
    /\ FirstCall
    /\ \E elements \in DhElementSeqs :
           Computed("dh_decode", elements,
                    dh_key_decode(ctx, BITS, BITS,
                                  KeyBuffer(<<6, 129, 130, 131, 132>>, DhKeyFields,
                                            elements)))

\* Octets handed to the decoder of an object identifier: too short, well
\* formed, a first arc above 2, an arc cut short, arcs of 5 and 6 octets,
\* and 39 and 40 octets.
OidBuffers ==
    {<<>>, <<4>>, <<4, 0>>, KeyOid, <<42, 134, 72>>, <<119, 1, 1>>, <<120, 1, 1>>,
     <<200, 1, 1>>, <<4, 0, 128>>, <<4, 129, 0>>, <<4, 143, 255, 255, 255, 127>>,
     <<4, 144, 128, 128, 128, 0>>, <<4, 255, 255, 255, 255, 127>>,
     <<4, 255, 255, 255, 255, 15>>, <<4, 0, 143, 255, 255, 255, 127>>,
     <<4, 129, 128, 128, 128, 128, 1>>,
     [i \in 1 .. 39 |-> 1], [i \in 1 .. 40 |-> 1]}

\* Codec<ObjectIdentifier>::decode of a buffer.
OidDecode ==
    /\ FirstCall
    /\ \E buffer \in OidBuffers :
           Computed("oid_decode", <<buffer>>, field_decode(ctx, 0, buffer))

NextKey ==
    \/ KeyDecodeRsa
    \/ KeyDecodeDh
    \/ OidDecode

SpecKey == InitKey /\ [][NextKey]_vars

\* The key of a decode call as the in-order encoding gives it, and the
\* number of its fields.
CallFields == IF call.op = "rsa_decode" THEN RsaKeyFields ELSE DhKeyFields

CallKey == [n \in 1 .. Len(CallFields) |->
               IF n = 1 THEN CallFields[n] ELSE BeValue(CallFields[n])]

\* How often element e occurs in the buffer of the call.
Occurrences(e) == Cardinality({i \in 1 .. Len(call.args) : call.args[i] = e})

\* C23: the RSA and DH public-key decoders accept the fields in any order
\* when read_order is Allow or Warn, returning the key of the in-order
\* encoding; they fail under Strict when a field is not at its position;
\* under every policy they fail when a tag occurs twice or a required tag
\* is missing.
FieldOrderByPolicy ==
    (call.op \in {"rsa_decode", "dh_decode"}
         /\ \A i \in 1 .. Len(call.args) : call.args[i] <= Len(CallFields)) =>
        /\ (\E n \in 1 .. Len(CallFields) : Occurrences(n) # 1) =>
               call.result.kind = "Err"
        /\ (\A n \in 1 .. Len(CallFields) : Occurrences(n) = 1) =>
               IF ctx.read_order = "Strict"
                      /\ \E i \in 1 .. Len(call.args) : call.args[i] # i
               THEN call.result.kind = "Err"
               ELSE call.result = Ok(CallKey)

\* C23 witness: under read_order = Warn a DH key whose five fields come in
\* reverse order was decoded to the key of the in-order encoding.
FieldsReadOutOfOrder ==
    /\ call.op = "dh_decode"
    /\ ctx.read_order = "Warn"
    /\ call.args = <<5, 4, 3, 2, 1>>
    /\ call.result = Ok(<<KeyOid, 23, 11, 2, 8>>)

\* The elements of the call's buffer that are fields of the key.
RECURSIVE KnownElements(_, _)
KnownElements(elements, fields) ==
    IF elements = <<>> THEN <<>>
    ELSE (IF Head(elements) <= fields THEN <<Head(elements)>> ELSE <<>>)
         \o KnownElements(Tail(elements), fields)

\* C27: under unknown_tag = Allow or Warn a public-key encoding holding all
\* required fields and one more element with an unknown tag, its value of
\* any length, decodes to the same key as the encoding without that
\* element; under unknown_tag = Strict decoding fails.
UnknownTagByPolicy ==
    (call.op \in {"rsa_decode", "dh_decode"}
         /\ Len(call.args) = Len(CallFields) + 1
         /\ KnownElements(call.args, Len(CallFields))
                = [n \in 1 .. Len(CallFields) |-> n]) =>
        IF ctx.unknown_tag = "Strict"
        THEN call.result.kind = "Err"
        ELSE ctx.read_order # "Strict" => call.result = Ok(CallKey)

\* ------------------------------------------------------------------------
\* mgf1 next to the mask of RFC 8017 B.2.1.
\* ------------------------------------------------------------------------

\* Seeds of the mask, and the longest mask asked for.
MgfSeeds == {<<>>, <<0>>, <<1>>, <<255>>, <<1, 2>>, <<2, 1>>}

MaxMaskLen == 7

\* `ctx` is the digest algorithm, `acc` the seed.
InitMgf ==
    /\ build = "release"
    /\ ctx \in DigestAlgorithms
    /\ acc \in MgfSeeds
    /\ call = NoCall

\* mgf1(ctx, acc, out_len).
Mgf1Call ==
    /\ FirstCall
    /\ \E out_len \in 0 .. MaxMaskLen :
           Computed("mgf1", <<out_len>>, mgf1(ctx, acc, out_len))

\* mgf1 for two lengths, the first no longer than the second.
Mgf1Pair ==
    /\ FirstCall
    /\ \E l2 \in 0 .. MaxMaskLen : \E l1 \in 0 .. l2 :
           Computed("mgf1_pair", <<l1, l2>>,
                    [short |-> mgf1(ctx, acc, l1), long |-> mgf1(ctx, acc, l2)])

NextMgf ==
    \/ Mgf1Call
    \/ Mgf1Pair

SpecMgf == InitMgf /\ [][NextMgf]_vars

\* Hash(seed || C) for the counters C = 0 .. blocks - 1, four octets each,
\* one after the other.
RefMask(algo, seed, blocks) ==
    Concat([c \in 1 .. blocks |-> hash_bytes(algo, seed \o RefOctets(c - 1, 4))])

\* C24: mgf1(digest, seed, L) returns exactly L bytes, the first L bytes of
\* Hash(seed || 00000000) || Hash(seed || 00000001) || ..; it returns the
\* empty string for L = 0, and its output for L1 <= L2 is a prefix of its
\* output for L2.
Mgf1IsMaskPrefix ==
    /\ call.op = "mgf1" =>
           /\ Len(call.result) = call.args[1]
           /\ call.result
                  = SubSeq(RefMask(ctx, acc,
                                   (call.args[1] + digest_len(ctx) - 1) \div digest_len(ctx)),
                           1, call.args[1])
    /\ call.op = "mgf1_pair" =>
           call.result.short = SubSeq(call.result.long, 1, call.args[1])

\* C24 witness: a mask of five octets from three blocks of Sha256, the
\* last block cut short, the first two blocks different.
Mgf1MaskOfBlocks ==
    /\ call.op = "mgf1"
    /\ ctx = "Sha256"
    /\ call.args[1] = 5
    /\ Len(call.result) = 5
    /\ SubSeq(call.result, 1, 2) # SubSeq(call.result, 3, 4)

\* C25: on a curve whose cofactor is not 1, from_affine(x, y) terminates
\* for every pair of base-field elements, returning Ok exactly when (x, y)
\* satisfies the curve equation and [order](x, y) is the point at infinity,
\* and Err otherwise.
FromAffineDecides ==
    (call.op = "from_affine" /\ ctx.cofactor # 1) =>
        IF RefPointValid(ctx, Affine(call.args[1], call.args[2]))
        THEN call.result = Ok(Affine(call.args[1], call.args[2]))
        ELSE call.result.kind = "Err"

\* ------------------------------------------------------------------------
\* The encoded message of verify_pss (rsa.rs): keys whose modulus is as wide
\* as the Uint type or shorter, a signer encoding to emLen octets, and the
\* split of EM the verifier makes.
\* ------------------------------------------------------------------------

\* The part of verify_pss up to the split of EM: the checks that come
\* first, then em_len, db and h.
verify_pss_split(key, signature, params, bld) ==
    LET ring     == key.ring
        em_elem  == RingRefExt_from_montgomery(
                        ring, elem_pow_ct(ring, signature, key.public_exponent, ring.bits),
                        bld)
        em_len   == (bit_len(ring.bits) + 7) \div 8
        hash_len == Len(hash_bytes(params.hash_algorithm, <<>>))
        db_len   == em_len - hash_len - 1
    IN  IF params.trailer_field[1] # 1 THEN Err
        ELSE IF em_elem.kind = "Panic" THEN Panic
        ELSE LET em_bytes == to_be_bytes(ring.bits, to_uint(ring, em_elem.val))
             IN  IF em_bytes[Len(em_bytes)] # 188 THEN Err
                 ELSE IF ~(em_len >= hash_len + params.salt_length[1] + 2) THEN Err
                 ELSE Ok([em_len |-> em_len,
                          db     |-> SubSeq(em_bytes, 1, db_len),
                          h      |-> SubSeq(em_bytes, db_len + 1, db_len + hash_len)])

\* Keys <<width of the Uint type, n, e, d>>: n = p * q of 26, 25 and 24
\* bits.
EmKeyPairs ==
    {<<26, 33840397, 141, 165>>, <<26, 20770621, 101, 221>>,
     <<25, 20770621, 101, 221>>, <<26, 8818883, 101, 161>>}

EmKey(t) == RSAPublicKey_try_from(t[1], t[2], t[3]).val

EmKeys == { EmKey(t) : t \in EmKeyPairs }

EmPrivateExponent(key) ==
    (CHOOSE t \in EmKeyPairs : EmKey(t) = key)[4]

\* The signer's configurations that fit emLen octets.
EmSignConfigs(n) ==
    { cfg \in SignConfigs : RefEmLen(n) >= digest_len(cfg[1]) + Len(cfg[2]) + 2 }

EmParams ==
    { RsaPssParameters(a, Mgf1(a), sl, tf) :
        a \in DigestAlgorithms, sl \in SaltLengths, tf \in TrailerFields }

InitEm ==
    /\ build \in Builds
    /\ ctx \in EmKeys
    /\ acc = None
    /\ call = NoCall

\* The signer: EM in emLen octets, s = EM^d mod n.
EmSign ==
    /\ acc.kind = "None"
    /\ \E cfg \in EmSignConfigs(ctx.ring.modulus), m \in Digests, tweak \in {"none", "trailer"} :
           LET n  == ctx.ring.modulus
               EM == RefPssEncode(n, cfg[1], m, cfg[2], tweak)
           IN  acc' = Signature(PowMod(BeValue(EM), EmPrivateExponent(ctx), n),
                                cfg[1], m, cfg[2])
    /\ UNCHANGED <<build, ctx, call>>

EmSplit ==
    /\ FirstCall
    /\ acc.kind = "Signature"
    /\ \E params \in EmParams :
           call' = [op        |-> "pss_split",
                    params    |-> params,
                    signature |-> acc.value,
                    result    |-> verify_pss_split(ctx, from(ctx.ring, acc.value),
                                                   params, build)]
    /\ UNCHANGED <<build, ctx, acc>>

NextEm ==
    \/ EmSign
    \/ EmSplit

SpecEm == InitEm /\ [][NextEm]_vars

\* EM = signature^e mod n in emLen = ceil((k - 1) / 8) octets, or None when
\* the value does not fit them (a non-zero leading octet).
RefEm(n, e, s) ==
    IF PowMod(s, e, n) >= Pow2(8 * RefEmLen(n)) THEN None
    ELSE Some(RefBytes(RefEmLen(n), PowMod(s, e, n)))

\* The split the verifier made is the one of the reference EM.
RefSplitOf(EM, hLen, split) ==
    /\ EM.kind = "Some"
    /\ split.em_len = Len(EM.val)
    /\ split.db = SubSeq(EM.val, 1, Len(EM.val) - hLen - 1)
    /\ split.h = SubSeq(EM.val, Len(EM.val) - hLen, Len(EM.val) - 1)

\* C26: for a modulus of k bits, k up to the width of the Uint type, when
\* verify_pss splits EM, EM is signature^e mod n in exactly
\* emLen = ceil((k - 1) / 8) octets, maskedDB is its first emLen - hLen - 1
\* octets and H the hLen octets before the final 0xBC octet.
EmSplitPerModulusLength ==
    (call.op = "pss_split" /\ call.result.kind = "Ok") =>
        RefSplitOf(RefEm(ctx.ring.modulus, ctx.public_exponent, call.signature),
                   digest_len(call.params.hash_algorithm), call.result.val)

\* ------------------------------------------------------------------------
\* The steps of scalar multiplication (elliptic_curve.rs, mul_uint): the
\* additions, conditional selects and doublings the loop performs, in
\* order, each select with the index of the scalar bit it reads.
\* ------------------------------------------------------------------------

AddStep == [op |-> "add"]

SelectStep(i) == [op |-> "select", bit |-> i]

DoubleStep == [op |-> "double"]

RECURSIVE mul_uint_steps_loop(_, _, _, _, _, _)

\* One iteration of mul_uint, given result + self and the doubled self: the
\* steps from this iteration on.  An abort in Add ends the steps.
mul_uint_steps_step(curve, result, self, scalar, i, len, sum, dbl) ==
    IF sum.kind = "Panic" THEN <<AddStep>>
    ELSE IF dbl.kind = "Panic" THEN <<AddStep, SelectStep(i), DoubleStep>>
    ELSE <<AddStep, SelectStep(i), DoubleStep>>
         \o mul_uint_steps_loop(curve,
                                point_conditional_select(curve, result, sum, bit_ct(scalar, i)),
                                dbl, scalar, i + 1, len)

\* The steps of the loop of mul_uint from iteration i on.
mul_uint_steps_loop(curve, result, self, scalar, i, len) ==
    IF i >= len THEN <<>>
    ELSE mul_uint_steps_step(curve, result, self, scalar, i, len,
                             EllipticCurvePoint_add(curve, result, self, {}),
                             EllipticCurvePoint_add(curve, self, self, {}))

\* The steps of EllipticCurvePoint::mul_uint.
mul_uint_steps(curve, self, scalar, sbits) ==
    mul_uint_steps_loop(curve, infinity(curve), self, scalar, 0, bit_len(sbits))

\* point * scalar, with the steps mul_uint went through.
PointMulSteps ==
    /\ Alive
    /\ acc.kind # "None"
    /\ \E scalar \in PointScalars :
           /\ call' = [op     |-> "mul_uint",
                       lhs    |-> acc,
                       args   |-> scalar,
                       result |-> EllipticCurvePoint_mul(ctx, acc, scalar),
                       steps  |-> mul_uint_steps(ctx, acc, to_uint(ctx.scalar_field, scalar),
                                                 ctx.scalar_field.bits)]
           /\ acc' = IF EllipticCurvePoint_mul(ctx, acc, scalar).kind = "Panic" THEN acc
                     ELSE EllipticCurvePoint_mul(ctx, acc, scalar)
    /\ UNCHANGED <<build, ctx>>

NextSteps ==
    \/ CurveGenerator
    \/ CurveFromAffine
    \/ CurveFromX
    \/ PointMulSteps

SpecSteps == InitCurve /\ [][NextSteps]_vars

\* The steps of a loop of `len` iterations that reads the scalar's bits
\* from the most significant down, one doubling and one conditional add
\* (an addition and a select) each.
RECURSIVE RefStepsMsbFirst(_)
RefStepsMsbFirst(len) ==
    IF len = 0 THEN <<>>
    ELSE <<DoubleStep, AddStep, SelectStep(len - 1)>> \o RefStepsMsbFirst(len - 1)

\* The doublings and selects among the steps.
DoublingsAndSelects(steps) == SelectSeq(steps, LAMBDA s : s.op # "add")

\* C28: [k]P runs a most-significant-bit-first double-and-conditional-add
\* loop of exactly bit_len iterations, one doubling and one conditional
\* select each, so that the doubling and select steps are the same sequence
\* for every scalar of the type.
MulUintStepsMsbFirst ==
    call.op = "mul_uint" =>
        DoublingsAndSelects(call.steps)
            = DoublingsAndSelects(RefStepsMsbFirst(ctx.scalar_field.bits))

\* ------------------------------------------------------------------------
\* encoded_size next to encode (icao_9303.rs): the size of a BER length and,
\* through ber_size! and ber_encoder!, of a PublicKeyRSA.
\* ------------------------------------------------------------------------

\* usize::ilog2 of a non-zero value.
ilog2(value) == uint_bit_len(value) - 1

\* Codec<BerSize>::encoded_size; ilog2 aborts on zero.
ber_encoded_size(value) ==
    IF value = 0 THEN Panic
    ELSE IF ilog2(value) < 8 THEN Ok(1)
    ELSE Ok(1 + (ilog2(value) + 7) \div 8)

\* ber_size!, one field: size += 1 + encoded_size(BerSize(value_size)) +
\* value_size.
ber_size_field(size, value_size) ==
    IF size.kind = "Panic" \/ ber_encoded_size(value_size).kind = "Panic" THEN Panic
    ELSE Ok(size.val + 1 + ber_encoded_size(value_size).val + value_size)

\* ber_encoder!, one field: the tag, the size of the value, the value.
ber_encoder_field(tag, value_size, octets) ==
    <<tag>> \o ber_encode(value_size) \o octets

\* Codec<PublicKeyRSA>::encoded_size.
rsa_key_encoded_size(oid, modulus, public_exponent) ==
    ber_size_field(ber_size_field(ber_size_field(Ok(0), Len(oid)), byte_len(modulus)),
                   byte_len(public_exponent))

\* Codec<PublicKeyRSA>::encode.
rsa_key_encode(bits, oid, modulus, public_exponent) ==
    ber_encoder_field(6, Len(oid), oid)
    \o ber_encoder_field(129, byte_len(modulus), icao_uint_encode(bits, modulus))
    \o ber_encoder_field(130, byte_len(public_exponent),
                         icao_uint_encode(bits, public_exponent))

\* encoded_size of the length held.
BerEncodedSize ==
    /\ FirstCall
    /\ Computed("encoded_size", <<acc>>, ber_encoded_size(acc))

\* Values of the fields of a PublicKeyRSA<Uint<26,1>>.
KeyUints == {0, 3, 21, 255, 256, 65537}

\* encoded_size of a PublicKeyRSA.
KeyEncodedSize ==
    /\ FirstCall
    /\ \E modulus, public_exponent \in KeyUints :
           Computed("key_encoded_size", <<modulus, public_exponent>>,
                    rsa_key_encoded_size(KeyOid, modulus, public_exponent))

NextSize ==
    \/ BerEncodedSize
    \/ KeyEncodedSize

SpecSize == InitBer /\ [][NextSize]_vars

\* C29: encoded_size(value) is the number of octets encode writes for the
\* value: for a BER length L >= 0, and for the tag-length-value sequence of a
\* key, where ber_size! computes the size and ber_encoder! writes the octets.
EncodedSizeIsEncodedLength ==
    /\ call.op = "encoded_size" =>
           call.result = Ok(Len(ber_encode(call.args[1])))
    /\ call.op = "key_encoded_size" =>
           call.result = Ok(Len(rsa_key_encode(RsaBits, KeyOid, call.args[1],
                                               call.args[2])))

\* ------------------------------------------------------------------------
\* Command APDUs (iso7816/mod.rs): parse_apdu splits a byte string into
\* header, Lc, data and Le.
\* ------------------------------------------------------------------------

\* ApduRef.
ApduRef(header, lc, data, le) ==
    [header |-> header, lc |-> lc, data |-> data, le |-> le]

\* u16::from_be_bytes.
u16_from_be_bytes(hi, lo) == hi * 256 + lo

\* `apdu.len() - k == lc` on usize: the subtraction overflows when the
\* length is below k, which aborts with overflow checks (debug) and wraps
\* without them to a value above every Lc.
len_minus_is(len, k, lc, bld) ==
    IF len < k
    THEN IF bld = "debug" THEN Panic ELSE Ok(FALSE)
    ELSE Ok(len - k = lc)

\* parse_apdu, extended length with data and Le: the arm once
\* `apdu.len() - 9 == lc` is evaluated.
parse_apdu_extended_le(apdu, lc, with_le) ==
    IF with_le.kind = "Panic" THEN Panic
    ELSE IF with_le.val
    THEN Ok(ApduRef(SubSeq(apdu, 1, 4), SubSeq(apdu, 5, 7), SubSeq(apdu, 8, 7 + lc),
                    SubSeq(apdu, 8 + lc, Len(apdu))))
    ELSE Err

\* parse_apdu, extended length with data: the arm once
\* `apdu.len() - 7 == lc` is evaluated.
parse_apdu_extended_data(apdu, lc, no_le, bld) ==
    IF no_le.kind = "Panic" THEN Panic
    ELSE IF no_le.val
    THEN Ok(ApduRef(SubSeq(apdu, 1, 4), SubSeq(apdu, 5, 7), SubSeq(apdu, 8, Len(apdu)),
                    <<>>))
    ELSE parse_apdu_extended_le(apdu, lc, len_minus_is(Len(apdu), 9, lc, bld))

\* parse_apdu, the arm (_, Some(&0x00)).
parse_apdu_extended(apdu, lc, bld) ==
    IF lc = 0 THEN Err
    ELSE parse_apdu_extended_data(apdu, lc, len_minus_is(Len(apdu), 7, lc, bld), bld)

\* parse_apdu, the arms (_, Some(&lc)) with their guards.
parse_apdu_short(apdu, lc, no_le, with_le) ==
    IF no_le.kind = "Panic" THEN Panic
    ELSE IF no_le.val
    THEN Ok(ApduRef(SubSeq(apdu, 1, 4), SubSeq(apdu, 5, 5), SubSeq(apdu, 6, Len(apdu)),
                    <<>>))
    ELSE IF with_le.kind = "Panic" THEN Panic
    ELSE IF with_le.val
    THEN Ok(ApduRef(SubSeq(apdu, 1, 4), SubSeq(apdu, 5, 5),
                    SubSeq(apdu, 6, Len(apdu) - 1), SubSeq(apdu, Len(apdu), Len(apdu))))
    ELSE Err

\* parse_apdu.
parse_apdu(apdu, bld) ==
    IF Len(apdu) < 4 THEN Err
    ELSE IF Len(apdu) = 4 THEN Ok(ApduRef(SubSeq(apdu, 1, 4), <<>>, <<>>, <<>>))
    ELSE IF Len(apdu) = 5
    THEN Ok(ApduRef(SubSeq(apdu, 1, 4), <<>>, <<>>, SubSeq(apdu, 5, 5)))
    ELSE IF Len(apdu) = 6 /\ apdu[5] = 0 THEN Err
    ELSE IF Len(apdu) = 7 /\ apdu[5] = 0
    THEN Ok(ApduRef(SubSeq(apdu, 1, 4), <<>>, <<>>, SubSeq(apdu, 5, Len(apdu))))
    ELSE IF apdu[5] = 0
    THEN parse_apdu_extended(apdu, u16_from_be_bytes(apdu[5], apdu[6]), bld)
    ELSE parse_apdu_short(apdu, apdu[5],
                          len_minus_is(Len(apdu), 5, apdu[5], bld),
                          len_minus_is(Len(apdu), 6, apdu[5], bld))

\* Headers (CLA, INS, P1, P2) and what follows them.
ApduHeaders == {<<0, 164, 4, 12>>, <<12, 176, 0, 0>>}

ApduOctets == {0, 1, 2}

MaxApduTail == 6

ApduTails == OctetStrings(ApduOctets, MaxApduTail)

InitApdu ==
    /\ build \in Builds
    /\ ctx \in ApduHeaders
    /\ acc \in ApduTails
    /\ call = NoCall

\* parse_apdu of the header and what follows.
ParseApdu ==
    /\ FirstCall
    /\ Computed("parse_apdu", <<ctx \o acc>>, parse_apdu(ctx \o acc, build))

\* parse_apdu of a byte string that stops within the header.
ParseApduTruncated ==
    /\ FirstCall
    /\ \E len \in 0 .. 3 :
           Computed("parse_apdu", <<SubSeq(ctx, 1, len)>>,
                    parse_apdu(SubSeq(ctx, 1, len), build))

NextApdu ==
    \/ ParseApdu
    \/ ParseApduTruncated

SpecApdu == InitApdu /\ [][NextApdu]_vars

\* The value an Lc field encodes: nothing, the single octet of the short
\* form, or the two octets after the 0x00 marker of the extended form.
RefLcValue(lc) ==
    IF lc = <<>> THEN 0
    ELSE IF Len(lc) = 1 THEN lc[1]
    ELSE lc[2] * 256 + lc[3]

\* The ApduRef splits the input and its data are as long as Lc says.
RefApduSplit(apdu, r) ==
    /\ Len(r.header) = 4
    /\ r.header \o r.lc \o r.data \o r.le = apdu
    /\ Len(r.data) = RefLcValue(r.lc)

\* C30: for every byte string parse_apdu returns an error or an ApduRef
\* whose header of 4 octets, lc, data and le concatenate to the input, with
\* as many data octets as Lc encodes; it never aborts.
ParseApduSplitsInput ==
    call.op = "parse_apdu" =>
        \/ call.result = Err
        \/ call.result.kind = "Ok" /\ RefApduSplit(call.args[1], call.result.val)

====
